---- MODULE Spec2Model ----
(***************************************************************************)
(* Incremental parser combinators of parsell (src/src/impls.rs).           *)
(*                                                                         *)
(* A parser is a value (a record tagged with the combinator's name); a     *)
(* stream is the unconsumed remainder of the current fragment (a sequence  *)
(* of tokens); init/more/done/empty are the trait methods                  *)
(* Uncommitted::init, Stateful::more, Stateful::done and Committed::empty, *)
(* one operator per impl block.  Every call appends an event to a call log *)
(* so that "which sub-parser was invoked" is observable.  A driver feeds   *)
(* one input, cut into fragments, through begin / resume / finish.         *)
(***************************************************************************)
EXTENDS Integers, Sequences, FiniteSets, TLC

\* ---------------------------------------------------------------- bounds
MaxLen == 3

\* ---------------------------------------------------------------- tokens
Digits   == {"1", "2", "3"}
Letters  == {"a", "b"}
Alphabet == Digits \cup Letters

\* ---------------------------------------------------------------- outputs
Ch(c)        == [t |-> "ch", c |-> c]
SomeV(v)     == [t |-> "some", v |-> v]
NoneV        == [t |-> "none"]
Pair(a, b)   == [t |-> "pair", a |-> a, b |-> b]
SeqV(s)      == [t |-> "seq", s |-> s]
UnitV        == [t |-> "unit"]
PanicV       == [t |-> "panic"]
Borrowed(s)  == [t |-> "cow", own |-> FALSE, str |-> s]
Owned(s)     == [t |-> "cow", own |-> TRUE, str |-> s]

\* Option<State> as held by StarState and BoxableState
NoState      == [some |-> FALSE]
SomeState(s) == [some |-> TRUE, v |-> s]

\* ---------------------------------------------------------------- parsers
Character(pred) == [k |-> "Character", pred |-> pred]
AnyCharacter    == [k |-> "AnyCharacter"]
Emit(f)         == [k |-> "Emit", f |-> f]
Discard(p)      == [k |-> "Discard", p |-> p]
Map(p, f)       == [k |-> "Map", p |-> p, f |-> f]
VariantMap(p, f) == [k |-> "VariantMap", p |-> p, f |-> f]
Opt(p)          == [k |-> "Opt", p |-> p]
OrElse(p, q)    == [k |-> "OrElse", p |-> p, q |-> q]
AndThen(p, q)   == [k |-> "AndThen", p |-> p, q |-> q]
Star(p, f)      == [k |-> "Star", p |-> p, f |-> f]
Plus(p, f)      == [k |-> "Plus", p |-> p, f |-> f]
Buffered(p)     == [k |-> "Buffered", p |-> p]
Boxed(p)        == [k |-> "Boxed", p |-> p]

\* ---------------------------------------------------------------- states
InLhs(fst, snd)      == [k |-> "InLhs", fst |-> fst, snd |-> snd]
InBetween(fst, snd)  == [k |-> "InBetween", fst |-> fst, snd |-> snd]
InRhs(fst, snd)      == [k |-> "InRhs", fst |-> fst, snd |-> snd]
Lhs(s)               == [k |-> "Lhs", s |-> s]
Rhs(s)               == [k |-> "Rhs", s |-> s]
StarState(p, st, acc) == [k |-> "StarState", p |-> p, st |-> st, acc |-> acc]
BufferedState(s, buf) == [k |-> "BufferedState", s |-> s, buf |-> buf]
BoxableState(slot)   == [k |-> "Box", slot |-> slot]

\* ---------------------------------------------------------------- results
Ev(op, path)         == <<[op |-> op, at |-> path]>>
RNone(rest, log)     == [r |-> "None", rest |-> rest, log |-> log]
RDone(out, rest, log) == [r |-> "Done", out |-> out, rest |-> rest, log |-> log]
RCont(st, rest, log) == [r |-> "Continue", st |-> st, rest |-> rest, log |-> log]
RDiverge(log)        == [r |-> "Diverge", log |-> log]
RPanic(log)          == [r |-> "Panic", log |-> log]
Logged(pre, res)     == [res EXCEPT !.log = pre \o res.log]
OutOf(out, log)      == [out |-> out, log |-> log]

\* ---------------------------------------------------------------- stream
\* PeekableIterator::is_empty
IsEmpty(str) == str = <<>>

\* PeekableIterator::next_if: consume the next token only if pred holds
NextIf(str, pred) ==
    IF str # <<>> /\ Head(str) \in pred
    THEN [some |-> TRUE, ch |-> Head(str), rest |-> Tail(str)]
    ELSE [some |-> FALSE, rest |-> str]

\* Iterator::next
Next_(str) ==
    IF str # <<>>
    THEN [some |-> TRUE, ch |-> Head(str), rest |-> Tail(str)]
    ELSE [some |-> FALSE, rest |-> str]

\* &string0[..(string0.len() - string.as_str().len())]
Consumed(string0, rest) == SubSeq(string0, 1, Len(string0) - Len(rest))

\* ---------------------------------------------------------------- user code
\* Factory::build / Consumer::accept for the "collect into a sequence" strategy
Build(f)          == SeqV(<<>>)
Accept(acc, item) == SeqV(Append(acc.s, item))

\* Result<S, E>: the success and failure payloads of fallible user code
Ok(v)  == [t |-> "ok", v |-> v]
Err(e) == [t |-> "err", e |-> e]

\* the call of a user closure on its arguments, left uninterpreted
Call(f, xs) == [t |-> "call", f |-> f, xs |-> xs]

RECURSIVE Apply(_, _)

\* fallible user code: rejects the letter 'b'; AlwaysOk is the same transform
\* with no failing input
Validate(v) == IF v \in {Ch("b"), SomeV(Ch("b"))} THEN Err(v) ELSE Ok(v)
AlwaysOk(v) == Ok(v)

\* Function2..Function6::apply: (self.0)(args.0 .. .0, .., (args.0).1, args.1)
Function2(f, args) == Call(f, <<args.a, args.b>>)
Function3(f, args) == Call(f, <<args.a.a, args.a.b, args.b>>)
\* Function4::apply with the second and third arguments exchanged
Function4_Swapped(f, args) == Call(f, <<args.a.a.a, args.a.b, args.a.a.b, args.b>>)

Function4(f, args) == Call(f, <<args.a.a.a, args.a.a.b, args.a.b, args.b>>)
Function5(f, args) ==
    Call(f, <<args.a.a.a.a, args.a.a.a.b, args.a.a.b, args.a.b, args.b>>)
Function6(f, args) ==
    Call(f, <<args.a.a.a.a.a, args.a.a.a.a.b, args.a.a.a.b, args.a.a.b,
              args.a.b, args.b>>)

\* Try::apply: Ok(self.0.apply(try!(args)))
Try(f, args) == IF args.t = "err" THEN args ELSE Ok(Apply(f, args.v))

\* TryDiscard::apply: try!(arg); Ok(())
TryDiscard(arg) == IF arg.t = "err" THEN arg ELSE Ok(UnitV)

\* TryZip::apply: Ok((try!(args.0), args.1))
TryZip(args) == IF args.a.t = "err" THEN args.a ELSE Ok(Pair(args.a.v, args.b))

\* ZipTry::apply: Ok((args.0, try!(args.1)))
ZipTry(args) == IF args.b.t = "err" THEN args.b ELSE Ok(Pair(args.a, args.b.v))

\* TryZipTry::apply that tries the right component first
TryZipTry_RightFirst(args) ==
    IF args.b.t = "err" THEN args.b
    ELSE IF args.a.t = "err" THEN args.a
    ELSE Ok(Pair(args.a.v, args.b.v))

\* TryZipTry::apply: Ok((try!(args.0), try!(args.1)))
TryZipTry(args) ==
    IF args.a.t = "err" THEN args.a
    ELSE IF args.b.t = "err" THEN args.b
    ELSE Ok(Pair(args.a.v, args.b.v))

\* TryOpt::apply
TryOpt(arg) ==
    CASE arg.t = "none"                      -> Ok(NoneV)
      [] arg.t = "some" /\ arg.v.t = "ok"    -> Ok(SomeV(arg.v.v))
      [] arg.t = "some" /\ arg.v.t = "err"   -> arg.v

\* Function::apply of the adapters used with Map / VariantMap
Apply(f, v) ==
    CASE f = "MkSome" -> SomeV(v)
      [] f = "First"  -> v.a
      [] f = "Second" -> v.b
      [] f = "Validate"   -> Validate(v)
      [] f = "AlwaysOk"   -> AlwaysOk(v)
      [] f = "TryMkSome"  -> Try("MkSome", v)
      [] f = "TryFirst"   -> Try("First", v)
      [] f = "TrySecond"  -> Try("Second", v)
      [] f = "TryDiscard" -> TryDiscard(v)
      [] f = "TryZip"     -> TryZip(v)
      [] f = "ZipTry"     -> ZipTry(v)
      [] f = "TryZipTry"  -> TryZipTry(v)
      [] f = "TryOpt"     -> TryOpt(v)
      [] f = "Function2"  -> Function2("g", v)
      [] f = "Function3"  -> Function3("g", v)
      [] f = "Function4"  -> Function4("g", v)
      [] f = "Function5"  -> Function5("g", v)
      [] f = "Function6"  -> Function6("g", v)

\* Downcast::downcast: the representation safe to keep in a suspended state
RECURSIVE Downcast(_)
Downcast(v) ==
    CASE v.t = "cow"  -> Owned(v.str)
      [] v.t = "pair" -> Pair(Downcast(v.a), Downcast(v.b))
      [] v.t = "some" -> SomeV(Downcast(v.v))
      [] v.t = "seq"  -> SeqV([i \in 1..Len(v.s) |-> Downcast(v.s[i])])
      [] OTHER        -> v

\* Upcast::upcast: the held value handed back at the stream's lifetime
Upcast(v) == v

\* ---------------------------------------------------------------- trait methods
RECURSIVE init(_, _, _), more(_, _, _), done(_, _), empty(_, _)
RECURSIVE StarLoop(_, _, _)

\* ---- Character
\* Character::init that takes the token with next() and tests it afterwards
CharacterInit_NextThenTest(p, str, path) ==
    LET n == Next_(str) IN
    IF n.some /\ n.ch \in p.pred
    THEN RDone(Ch(n.ch), n.rest, Ev("init", path))
    ELSE RNone(n.rest, Ev("init", path))

\* Character::init that ignores its predicate
CharacterInit_AnyToken(p, str, path) ==
    LET n == Next_(str) IN
    IF n.some THEN RDone(Ch(n.ch), n.rest, Ev("init", path))
              ELSE RNone(n.rest, Ev("init", path))

CharacterInit(p, str, path) ==
    LET n == NextIf(str, p.pred) IN
    IF n.some THEN RDone(Ch(n.ch), n.rest, Ev("init", path))
              ELSE RNone(n.rest, Ev("init", path))

\* ---- AnyCharacter
\* AnyCharacter::init that suspends on an exhausted fragment
AnyCharacterInit_Suspend(p, str, path) ==
    LET n == Next_(str) IN
    IF n.some THEN RDone(SomeV(Ch(n.ch)), n.rest, Ev("init", path))
              ELSE RCont(p, n.rest, Ev("init", path))

AnyCharacterInit(p, str, path) ==
    LET n == Next_(str) IN
    IF n.some THEN RDone(SomeV(Ch(n.ch)), n.rest, Ev("init", path))
              ELSE RNone(n.rest, Ev("init", path))

AnyCharacterMore(self, str, path) ==
    LET n == Next_(str) IN
    IF n.some THEN RDone(SomeV(Ch(n.ch)), n.rest, Ev("more", path))
              ELSE RCont(self, n.rest, Ev("more", path))

AnyCharacterDone(self, path) == OutOf(NoneV, Ev("done", path))

AnyCharacterEmpty(p, path) == OutOf(NoneV, Ev("empty", path))

\* ---- Emit
\* Emit::init without the is_empty test
EmitInit_Always(p, str, path) == RDone(Build(p.f), str, Ev("init", path))

EmitInit(p, str, path) ==
    IF IsEmpty(str) THEN RNone(str, Ev("init", path))
                    ELSE RDone(Build(p.f), str, Ev("init", path))

EmitMore(self, str, path) == RDone(Build(self.f), str, Ev("more", path))

EmitDone(self, path) == OutOf(Build(self.f), Ev("done", path))

EmitEmpty(p, path) == OutOf(Build(p.f), Ev("empty", path))

\* ---- Map and VariantMap (same bodies in the source)
\* Map::init that declines when the transform yields a failure
MapInit_FailureDeclines(p, str, path) ==
    LET r == Logged(Ev("init", path), init(p.p, str, path \o <<"p">>)) IN
    CASE r.r = "Done" /\ Apply(p.f, r.out).t = "err" -> RNone(str, r.log)
      [] r.r = "Done"     -> RDone(Apply(p.f, r.out), r.rest, r.log)
      [] r.r = "Continue" -> RCont([k |-> p.k, p |-> r.st, f |-> p.f], r.rest, r.log)
      [] OTHER            -> r

MapInit(p, str, path) ==
    LET r == Logged(Ev("init", path), init(p.p, str, path \o <<"p">>)) IN
    CASE r.r = "Done"     -> RDone(Apply(p.f, r.out), r.rest, r.log)
      [] r.r = "Continue" -> RCont([k |-> p.k, p |-> r.st, f |-> p.f], r.rest, r.log)
      [] OTHER            -> r

\* Map::more that returns p's Output without applying f
MapMore_Raw(self, str, path) ==
    LET r == Logged(Ev("more", path), more(self.p, str, path \o <<"p">>)) IN
    CASE r.r = "Continue" -> RCont([k |-> self.k, p |-> r.st, f |-> self.f], r.rest, r.log)
      [] OTHER            -> r

MapMore(self, str, path) ==
    LET r == Logged(Ev("more", path), more(self.p, str, path \o <<"p">>)) IN
    CASE r.r = "Done"     -> RDone(Apply(self.f, r.out), r.rest, r.log)
      [] r.r = "Continue" -> RCont([k |-> self.k, p |-> r.st, f |-> self.f], r.rest, r.log)
      [] OTHER            -> r

MapDone(self, path) ==
    LET d == done(self.p, path \o <<"p">>) IN
    OutOf(Apply(self.f, d.out), Ev("done", path) \o d.log)

MapEmpty(p, path) ==
    LET e == empty(p.p, path \o <<"p">>) IN
    OutOf(Apply(p.f, e.out), Ev("empty", path) \o e.log)

\* ---- Discard
DiscardInit(p, str, path) ==
    LET r == Logged(Ev("init", path), init(p.p, str, path \o <<"p">>)) IN
    CASE r.r = "Done"     -> RDone(UnitV, r.rest, r.log)
      [] r.r = "Continue" -> RCont(Discard(r.st), r.rest, r.log)
      [] OTHER            -> r

DiscardMore(self, str, path) ==
    LET r == Logged(Ev("more", path), more(self.p, str, path \o <<"p">>)) IN
    CASE r.r = "Done"     -> RDone(UnitV, r.rest, r.log)
      [] r.r = "Continue" -> RCont(Discard(r.st), r.rest, r.log)
      [] OTHER            -> r

DiscardDone(self, path) == OutOf(UnitV, Ev("done", path))

DiscardEmpty(p, path) == OutOf(UnitV, Ev("empty", path))

\* ---- Opt
\* Opt::init that passes p's decline on whatever the stream holds
OptInit_PassDecline(p, str, path) ==
    LET r == Logged(Ev("init", path), init(p.p, str, path \o <<"p">>)) IN
    CASE r.r = "Done"     -> RDone(SomeV(r.out), r.rest, r.log)
      [] r.r = "Continue" -> RCont(Opt(r.st), r.rest, r.log)
      [] OTHER            -> r

\* Opt::init that answers absent without testing is_empty
OptInit_EagerAbsent(p, str, path) ==
    LET r == Logged(Ev("init", path), init(p.p, str, path \o <<"p">>)) IN
    CASE r.r = "None"     -> RDone(NoneV, r.rest, r.log)
      [] r.r = "Done"     -> RDone(SomeV(r.out), r.rest, r.log)
      [] r.r = "Continue" -> RCont(Opt(r.st), r.rest, r.log)
      [] OTHER            -> r

OptInit(p, str, path) ==
    LET r == Logged(Ev("init", path), init(p.p, str, path \o <<"p">>)) IN
    CASE r.r = "None"     -> IF IsEmpty(r.rest) THEN r
                             ELSE RDone(NoneV, r.rest, r.log)
      [] r.r = "Done"     -> RDone(SomeV(r.out), r.rest, r.log)
      [] r.r = "Continue" -> RCont(Opt(r.st), r.rest, r.log)
      [] OTHER            -> r

OptMore(self, str, path) ==
    LET r == Logged(Ev("more", path), more(self.p, str, path \o <<"p">>)) IN
    CASE r.r = "Done"     -> RDone(SomeV(r.out), r.rest, r.log)
      [] r.r = "Continue" -> RCont(Opt(r.st), r.rest, r.log)
      [] OTHER            -> r

OptDone(self, path) ==
    LET d == done(self.p, path \o <<"p">>) IN
    OutOf(SomeV(d.out), Ev("done", path) \o d.log)

OptEmpty(p, path) == OutOf(NoneV, Ev("empty", path))


\* ---- AndThen
\* AndThen::init building the pair the wrong way round
AndThenInit_Swapped(p, str, path) ==
    LET r1 == Logged(Ev("init", path), init(p.p, str, path \o <<"p">>)) IN
    CASE r1.r = "Done" ->
           LET r2 == Logged(r1.log, init(p.q, r1.rest, path \o <<"q">>)) IN
           CASE r2.r = "None"     -> RCont(InBetween(Downcast(r1.out), p.q), r2.rest, r2.log)
             [] r2.r = "Done"     -> RDone(Pair(r2.out, r1.out), r2.rest, r2.log)
             [] r2.r = "Continue" -> RCont(InRhs(Downcast(r1.out), r2.st), r2.rest, r2.log)
             [] OTHER             -> r2
      [] r1.r = "Continue" -> RCont(InLhs(r1.st, p.q), r1.rest, r1.log)
      [] OTHER             -> r1

\* AndThen::init that leaves q for the next call once p has completed
AndThenInit_DeferQ(p, str, path) ==
    LET r1 == Logged(Ev("init", path), init(p.p, str, path \o <<"p">>)) IN
    CASE r1.r = "Done"     -> RCont(InBetween(Downcast(r1.out), p.q), r1.rest, r1.log)
      [] r1.r = "Continue" -> RCont(InLhs(r1.st, p.q), r1.rest, r1.log)
      [] OTHER             -> r1

AndThenInit(p, str, path) ==
    LET r1 == Logged(Ev("init", path), init(p.p, str, path \o <<"p">>)) IN
    CASE r1.r = "Done" ->
           LET r2 == Logged(r1.log, init(p.q, r1.rest, path \o <<"q">>)) IN
           CASE r2.r = "None"     -> RCont(InBetween(Downcast(r1.out), p.q), r2.rest, r2.log)
             [] r2.r = "Done"     -> RDone(Pair(r1.out, r2.out), r2.rest, r2.log)
             [] r2.r = "Continue" -> RCont(InRhs(Downcast(r1.out), r2.st), r2.rest, r2.log)
             [] OTHER             -> r2
      [] r1.r = "Continue" -> RCont(InLhs(r1.st, p.q), r1.rest, r1.log)
      [] OTHER             -> r1

AndThenEmpty(p, path) ==
    LET e1 == empty(p.p, path \o <<"p">>)
        e2 == empty(p.q, path \o <<"q">>) IN
    OutOf(Pair(e1.out, e2.out), Ev("empty", path) \o e1.log \o e2.log)

\* AndThenState::done that gives q a begin on the empty stream before onEmpty
AndThenStateDone_BeginsQ(self, path) ==
    CASE self.k = "InLhs" ->
           LET d == done(self.fst, path \o <<"p">>)
               b == init(self.snd, <<>>, path \o <<"q">>)
               e == empty(self.snd, path \o <<"q">>) IN
           OutOf(Pair(d.out, e.out), Ev("done", path) \o d.log \o b.log \o e.log)
      [] self.k = "InBetween" ->
           LET b == init(self.snd, <<>>, path \o <<"q">>)
               e == empty(self.snd, path \o <<"q">>) IN
           OutOf(Pair(Upcast(self.fst), e.out), Ev("done", path) \o b.log \o e.log)
      [] self.k = "InRhs" ->
           LET d == done(self.snd, path \o <<"q">>) IN
           OutOf(Pair(Upcast(self.fst), d.out), Ev("done", path) \o d.log)

AndThenStateDone(self, path) ==
    CASE self.k = "InLhs" ->
           LET d == done(self.fst, path \o <<"p">>)
               e == empty(self.snd, path \o <<"q">>) IN
           OutOf(Pair(d.out, e.out), Ev("done", path) \o d.log \o e.log)
      [] self.k = "InBetween" ->
           LET e == empty(self.snd, path \o <<"q">>) IN
           OutOf(Pair(Upcast(self.fst), e.out), Ev("done", path) \o e.log)
      [] self.k = "InRhs" ->
           LET d == done(self.snd, path \o <<"q">>) IN
           OutOf(Pair(Upcast(self.fst), d.out), Ev("done", path) \o d.log)

\* AndThenState::more that offers the fragment to q while p is still suspended
AndThenStateMore_EagerQ(self, str, path) ==
    CASE self.k = "InLhs" ->
           LET r1 == Logged(Ev("more", path), more(self.fst, str, path \o <<"p">>)) IN
           CASE r1.r = "Done" ->
                  LET r2 == Logged(r1.log, init(self.snd, r1.rest, path \o <<"q">>)) IN
                  CASE r2.r = "None"     -> RCont(InBetween(Downcast(r1.out), self.snd), r2.rest, r2.log)
                    [] r2.r = "Done"     -> RDone(Pair(r1.out, r2.out), r2.rest, r2.log)
                    [] r2.r = "Continue" -> RCont(InRhs(Downcast(r1.out), r2.st), r2.rest, r2.log)
                    [] OTHER             -> r2
             [] r1.r = "Continue" ->
                  LET r2 == Logged(r1.log, init(self.snd, r1.rest, path \o <<"q">>)) IN
                  RCont(InLhs(r1.st, self.snd), r1.rest, r2.log)
             [] OTHER             -> r1
      [] self.k = "InBetween" ->
           LET r2 == Logged(Ev("more", path), init(self.snd, str, path \o <<"q">>)) IN
           CASE r2.r = "None"     -> RCont(InBetween(self.fst, self.snd), r2.rest, r2.log)
             [] r2.r = "Done"     -> RDone(Pair(Upcast(self.fst), r2.out), r2.rest, r2.log)
             [] r2.r = "Continue" -> RCont(InRhs(self.fst, r2.st), r2.rest, r2.log)
             [] OTHER             -> r2
      [] self.k = "InRhs" ->
           LET r2 == Logged(Ev("more", path), more(self.snd, str, path \o <<"q">>)) IN
           CASE r2.r = "Done"     -> RDone(Pair(Upcast(self.fst), r2.out), r2.rest, r2.log)
             [] r2.r = "Continue" -> RCont(InRhs(self.fst, r2.st), r2.rest, r2.log)
             [] OTHER             -> r2

\* AndThenState::more that loses the held value when q suspends again
AndThenStateMore_DropHeld(self, str, path) ==
    CASE self.k = "InLhs" ->
           LET r1 == Logged(Ev("more", path), more(self.fst, str, path \o <<"p">>)) IN
           CASE r1.r = "Done" ->
                  LET r2 == Logged(r1.log, init(self.snd, r1.rest, path \o <<"q">>)) IN
                  CASE r2.r = "None"     -> RCont(InBetween(Downcast(r1.out), self.snd), r2.rest, r2.log)
                    [] r2.r = "Done"     -> RDone(Pair(r1.out, r2.out), r2.rest, r2.log)
                    [] r2.r = "Continue" -> RCont(InRhs(Downcast(r1.out), r2.st), r2.rest, r2.log)
                    [] OTHER             -> r2
             [] r1.r = "Continue" -> RCont(InLhs(r1.st, self.snd), r1.rest, r1.log)
             [] OTHER             -> r1
      [] self.k = "InBetween" ->
           LET r2 == Logged(Ev("more", path), init(self.snd, str, path \o <<"q">>)) IN
           CASE r2.r = "None"     -> RCont(InBetween(self.fst, self.snd), r2.rest, r2.log)
             [] r2.r = "Done"     -> RDone(Pair(Upcast(self.fst), r2.out), r2.rest, r2.log)
             [] r2.r = "Continue" -> RCont(InRhs(UnitV, r2.st), r2.rest, r2.log)
             [] OTHER             -> r2
      [] self.k = "InRhs" ->
           LET r2 == Logged(Ev("more", path), more(self.snd, str, path \o <<"q">>)) IN
           CASE r2.r = "Done"     -> RDone(Pair(Upcast(self.fst), r2.out), r2.rest, r2.log)
             [] r2.r = "Continue" -> RCont(InRhs(UnitV, r2.st), r2.rest, r2.log)
             [] OTHER             -> r2

AndThenStateMore(self, str, path) ==
    CASE self.k = "InLhs" ->
           LET r1 == Logged(Ev("more", path), more(self.fst, str, path \o <<"p">>)) IN
           CASE r1.r = "Done" ->
                  LET r2 == Logged(r1.log, init(self.snd, r1.rest, path \o <<"q">>)) IN
                  CASE r2.r = "None"     -> RCont(InBetween(Downcast(r1.out), self.snd), r2.rest, r2.log)
                    [] r2.r = "Done"     -> RDone(Pair(r1.out, r2.out), r2.rest, r2.log)
                    [] r2.r = "Continue" -> RCont(InRhs(Downcast(r1.out), r2.st), r2.rest, r2.log)
                    [] OTHER             -> r2
             [] r1.r = "Continue" -> RCont(InLhs(r1.st, self.snd), r1.rest, r1.log)
             [] OTHER             -> r1
      [] self.k = "InBetween" ->
           LET r2 == Logged(Ev("more", path), init(self.snd, str, path \o <<"q">>)) IN
           CASE r2.r = "None"     -> RCont(InBetween(self.fst, self.snd), r2.rest, r2.log)
             [] r2.r = "Done"     -> RDone(Pair(Upcast(self.fst), r2.out), r2.rest, r2.log)
             [] r2.r = "Continue" -> RCont(InRhs(self.fst, r2.st), r2.rest, r2.log)
             [] OTHER             -> r2
      [] self.k = "InRhs" ->
           LET r2 == Logged(Ev("more", path), more(self.snd, str, path \o <<"q">>)) IN
           CASE r2.r = "Done"     -> RDone(Pair(Upcast(self.fst), r2.out), r2.rest, r2.log)
             [] r2.r = "Continue" -> RCont(InRhs(self.fst, r2.st), r2.rest, r2.log)
             [] OTHER             -> r2

\* ---- OrElse
\* OrElse::init that gives up when p declines instead of trying q
OrElseInit_NoFallback(p, str, path) ==
    LET r1 == Logged(Ev("init", path), init(p.p, str, path \o <<"p">>)) IN
    CASE r1.r = "Done"     -> RDone(r1.out, r1.rest, r1.log)
      [] r1.r = "Continue" -> RCont(Lhs(r1.st), r1.rest, r1.log)
      [] OTHER -> r1

\* OrElse::init that starts q before looking at what p returned
OrElseInit_Eager(p, str, path) ==
    LET r1 == Logged(Ev("init", path), init(p.p, str, path \o <<"p">>))
        r2 == Logged(r1.log, init(p.q, r1.rest, path \o <<"q">>)) IN
    CASE r1.r = "Done"     -> RDone(r1.out, r1.rest, r2.log)
      [] r1.r = "Continue" -> RCont(Lhs(r1.st), r1.rest, r2.log)
      [] r1.r = "None" ->
           (CASE r2.r = "Done"     -> RDone(r2.out, r2.rest, r2.log)
              [] r2.r = "Continue" -> RCont(Rhs(r2.st), r2.rest, r2.log)
              [] OTHER             -> r2)
      [] OTHER -> r1

OrElseInit(p, str, path) ==
    LET r1 == Logged(Ev("init", path), init(p.p, str, path \o <<"p">>)) IN
    CASE r1.r = "Done"     -> RDone(r1.out, r1.rest, r1.log)
      [] r1.r = "Continue" -> RCont(Lhs(r1.st), r1.rest, r1.log)
      [] r1.r = "None" ->
           LET r2 == Logged(r1.log, init(p.q, r1.rest, path \o <<"q">>)) IN
           CASE r2.r = "Done"     -> RDone(r2.out, r2.rest, r2.log)
             [] r2.r = "Continue" -> RCont(Rhs(r2.st), r2.rest, r2.log)
             [] OTHER             -> r2
      [] OTHER -> r1

OrElseEmpty(p, path) ==
    LET e == empty(p.q, path \o <<"q">>) IN
    OutOf(e.out, Ev("empty", path) \o e.log)

OrElseStateMore(self, str, path) ==
    CASE self.k = "Lhs" ->
           LET r == Logged(Ev("more", path), more(self.s, str, path \o <<"p">>)) IN
           CASE r.r = "Done"     -> RDone(r.out, r.rest, r.log)
             [] r.r = "Continue" -> RCont(Lhs(r.st), r.rest, r.log)
             [] OTHER            -> r
      [] self.k = "Rhs" ->
           LET r == Logged(Ev("more", path), more(self.s, str, path \o <<"q">>)) IN
           CASE r.r = "Done"     -> RDone(r.out, r.rest, r.log)
             [] r.r = "Continue" -> RCont(Rhs(r.st), r.rest, r.log)
             [] OTHER            -> r

OrElseStateDone(self, path) ==
    CASE self.k = "Lhs" ->
           LET d == done(self.s, path \o <<"p">>) IN
           OutOf(d.out, Ev("done", path) \o d.log)
      [] self.k = "Rhs" ->
           LET d == done(self.s, path \o <<"q">>) IN
           OutOf(d.out, Ev("done", path) \o d.log)

\* ---- StarState, Plus, Star
\* StarState::more that drops the item of a completed occurrence
StarLoop_DropItem(self, str, path) ==
    IF ~self.st.some
    THEN LET r == init(self.p, str, path \o <<"p">>) IN
         CASE r.r = "Continue" ->
                RCont(StarState(self.p, SomeState(r.st), self.acc), r.rest, r.log)
           [] r.r = "Done" ->
                IF r.rest = str
                THEN RDiverge(r.log)
                ELSE Logged(r.log, StarLoop(StarState(self.p, NoState, self.acc),
                                            r.rest, path))
           [] r.r = "None" ->
                IF IsEmpty(r.rest) THEN RCont(self, r.rest, r.log)
                                   ELSE RDone(self.acc, r.rest, r.log)
           [] OTHER -> r
    ELSE LET r == more(self.st.v, str, path \o <<"p">>) IN
         CASE r.r = "Continue" ->
                RCont(StarState(self.p, SomeState(r.st), self.acc), r.rest, r.log)
           [] r.r = "Done" ->
                Logged(r.log, StarLoop(StarState(self.p, NoState, Accept(self.acc, r.out)),
                                       r.rest, path))
           [] OTHER -> r

\* StarState::more without the is_empty test: concludes at a fragment's end
StarLoop_NoEmptyTest(self, str, path) ==
    IF ~self.st.some
    THEN LET r == init(self.p, str, path \o <<"p">>) IN
         CASE r.r = "Continue" ->
                RCont(StarState(self.p, SomeState(r.st), self.acc), r.rest, r.log)
           [] r.r = "Done" ->
                IF r.rest = str
                THEN RDiverge(r.log)
                ELSE Logged(r.log, StarLoop(StarState(self.p, NoState, Accept(self.acc, r.out)),
                                            r.rest, path))
           [] r.r = "None" -> RDone(self.acc, r.rest, r.log)
           [] OTHER -> r
    ELSE LET r == more(self.st.v, str, path \o <<"p">>) IN
         CASE r.r = "Continue" ->
                RCont(StarState(self.p, SomeState(r.st), self.acc), r.rest, r.log)
           [] r.r = "Done" ->
                Logged(r.log, StarLoop(StarState(self.p, NoState, Accept(self.acc, r.out)),
                                       r.rest, path))
           [] OTHER -> r

\* One pass of the `loop` in StarState::more.  An inner init that returns Done
\* without consuming a token makes the next pass identical to this one, so
\* the loop never returns: that outcome is Diverge.
\* StarState::more that suspends on every decline, tokens left or not
StarLoop_SuspendOnDecline(self, str, path) ==
    IF ~self.st.some
    THEN LET r == init(self.p, str, path \o <<"p">>) IN
         CASE r.r = "Continue" ->
                RCont(StarState(self.p, SomeState(r.st), self.acc), r.rest, r.log)
           [] r.r = "Done" ->
                IF r.rest = str
                THEN RDiverge(r.log)
                ELSE Logged(r.log, StarLoop(StarState(self.p, NoState, Accept(self.acc, r.out)),
                                            r.rest, path))
           [] r.r = "None" -> RCont(self, r.rest, r.log)
           [] OTHER -> r
    ELSE LET r == more(self.st.v, str, path \o <<"p">>) IN
         CASE r.r = "Continue" ->
                RCont(StarState(self.p, SomeState(r.st), self.acc), r.rest, r.log)
           [] r.r = "Done" ->
                Logged(r.log, StarLoop(StarState(self.p, NoState, Accept(self.acc, r.out)),
                                       r.rest, path))
           [] OTHER -> r

\* StarState::more that suspends after each item it folds
StarLoop_SuspendPerItem(self, str, path) ==
    IF ~self.st.some
    THEN LET r == init(self.p, str, path \o <<"p">>) IN
         CASE r.r = "Continue" ->
                RCont(StarState(self.p, SomeState(r.st), self.acc), r.rest, r.log)
           [] r.r = "Done" ->
                RCont(StarState(self.p, NoState, Accept(self.acc, r.out)), r.rest, r.log)
           [] r.r = "None" ->
                IF IsEmpty(r.rest) THEN RCont(self, r.rest, r.log)
                                   ELSE RDone(self.acc, r.rest, r.log)
           [] OTHER -> r
    ELSE LET r == more(self.st.v, str, path \o <<"p">>) IN
         CASE r.r = "Continue" ->
                RCont(StarState(self.p, SomeState(r.st), self.acc), r.rest, r.log)
           [] r.r = "Done" ->
                RCont(StarState(self.p, NoState, Accept(self.acc, r.out)), r.rest, r.log)
           [] OTHER -> r

StarLoop(self, str, path) ==
    IF ~self.st.some
    THEN LET r == init(self.p, str, path \o <<"p">>) IN
         CASE r.r = "Continue" ->
                RCont(StarState(self.p, SomeState(r.st), self.acc), r.rest, r.log)
           [] r.r = "Done" ->
                IF r.rest = str
                THEN RDiverge(r.log)
                ELSE Logged(r.log, StarLoop(StarState(self.p, NoState, Accept(self.acc, r.out)),
                                            r.rest, path))
           [] r.r = "None" ->
                IF IsEmpty(r.rest) THEN RCont(self, r.rest, r.log)
                                   ELSE RDone(self.acc, r.rest, r.log)
           [] OTHER -> r
    ELSE LET r == more(self.st.v, str, path \o <<"p">>) IN
         CASE r.r = "Continue" ->
                RCont(StarState(self.p, SomeState(r.st), self.acc), r.rest, r.log)
           [] r.r = "Done" ->
                Logged(r.log, StarLoop(StarState(self.p, NoState, Accept(self.acc, r.out)),
                                       r.rest, path))
           [] OTHER -> r

StarStateMore(self, str, path) == Logged(Ev("more", path), StarLoop(self, str, path))

\* StarState::done that finishes a pending occurrence and folds it in
StarStateDone_FinishPending(self, path) ==
    IF self.st.some
    THEN LET d == done(self.st.v, path \o <<"p">>) IN
         OutOf(Accept(self.acc, d.out), Ev("done", path) \o d.log)
    ELSE OutOf(self.acc, Ev("done", path))

StarStateDone(self, path) == OutOf(self.acc, Ev("done", path))

\* Plus::init that, like Star, starts the loop whatever p's first answer
PlusInit_ZeroOrMore(p, str, path) ==
    LET r == Logged(Ev("init", path), init(p.p, str, path \o <<"p">>)) IN
    CASE r.r = "Continue" ->
           RCont(StarState(p.p, SomeState(r.st), Build(p.f)), r.rest, r.log)
      [] r.r = "Done" ->
           LET buffer == Accept(Build(p.f), r.out) IN
           Logged(r.log, StarStateMore(StarState(p.p, NoState, buffer), r.rest, path))
      [] r.r = "None" ->
           IF IsEmpty(r.rest) THEN r ELSE RDone(Build(p.f), r.rest, r.log)
      [] OTHER -> r

PlusInit(p, str, path) ==
    LET r == Logged(Ev("init", path), init(p.p, str, path \o <<"p">>)) IN
    CASE r.r = "Continue" ->
           RCont(StarState(p.p, SomeState(r.st), Build(p.f)), r.rest, r.log)
      [] r.r = "Done" ->
           LET buffer == Accept(Build(p.f), r.out) IN
           Logged(r.log, StarStateMore(StarState(p.p, NoState, buffer), r.rest, path))
      [] OTHER -> r

\* Star::init without the is_empty test
StarInit_NoEmptyTest(p, str, path) ==
    Logged(Ev("init", path),
           StarStateMore(StarState(p.p, NoState, Build(p.f)), str, path))

StarInit(p, str, path) ==
    IF IsEmpty(str)
    THEN RNone(str, Ev("init", path))
    ELSE Logged(Ev("init", path),
                StarStateMore(StarState(p.p, NoState, Build(p.f)), str, path))

StarEmpty(p, path) == OutOf(Build(p.f), Ev("empty", path))

\* ---- Buffered
\* Buffered::init that starts the owned buffer empty when p suspends
BufferedInit_EmptyBuffer(p, str, path) ==
    LET string0 == str
        r == Logged(Ev("init", path), init(p.p, str, path \o <<"p">>)) IN
    CASE r.r = "Done"     -> RDone(Borrowed(Consumed(string0, r.rest)), r.rest, r.log)
      [] r.r = "Continue" -> RCont(BufferedState(r.st, <<>>), r.rest, r.log)
      [] OTHER            -> r

BufferedInit(p, str, path) ==
    LET string0 == str
        r == Logged(Ev("init", path), init(p.p, str, path \o <<"p">>)) IN
    CASE r.r = "Done"     -> RDone(Borrowed(Consumed(string0, r.rest)), r.rest, r.log)
      [] r.r = "Continue" -> RCont(BufferedState(r.st, string0), r.rest, r.log)
      [] OTHER            -> r

BufferedEmpty(p, path) == OutOf(Borrowed(<<>>), Ev("empty", path))

\* BufferedState::more that appends the whole fragment also on Done
BufferedStateMore_PushAll(self, str, path) ==
    LET string0 == str
        r == Logged(Ev("more", path), more(self.s, str, path \o <<"p">>)) IN
    CASE r.r = "Done" ->
           RDone(Owned(self.buf \o string0), r.rest, r.log)
      [] r.r = "Continue" ->
           RCont(BufferedState(r.st, self.buf \o string0), r.rest, r.log)
      [] OTHER -> r

\* BufferedState::more that marks every fragment boundary in the buffer
BufferedStateMore_MarkBoundary(self, str, path) ==
    LET string0 == str
        r == Logged(Ev("more", path), more(self.s, str, path \o <<"p">>)) IN
    CASE r.r = "Done" ->
           RDone(Owned(self.buf \o Consumed(string0, r.rest)), r.rest, r.log)
      [] r.r = "Continue" ->
           RCont(BufferedState(r.st, self.buf \o string0 \o <<"|">>), r.rest, r.log)
      [] OTHER -> r

BufferedStateMore(self, str, path) ==
    LET string0 == str
        r == Logged(Ev("more", path), more(self.s, str, path \o <<"p">>)) IN
    CASE r.r = "Done" ->
           RDone(Owned(self.buf \o Consumed(string0, r.rest)), r.rest, r.log)
      [] r.r = "Continue" ->
           RCont(BufferedState(r.st, self.buf \o string0), r.rest, r.log)
      [] OTHER -> r

BufferedStateDone(self, path) == OutOf(Owned(self.buf), Ev("done", path))

\* ---- BoxableState, Box, Boxed
\* more_boxable followed by Box::more: the box is handed back on Continue
\* more_boxable that does not put the advanced state back
MoreBoxable_NoStore(self, str, path) ==
    IF ~self.slot.some
    THEN [res |-> RPanic(Ev("more", path)), slot |-> NoState]
    ELSE LET r == Logged(Ev("more", path), more(self.slot.v, str, path \o <<"p">>)) IN
         [res |-> r, slot |-> NoState]

\* BoxableState::more_boxable: self.0.take().unwrap().more(string); the slot
\* is refilled only on Continue.  Returns the result and the slot afterwards.
MoreBoxable(self, str, path) ==
    IF ~self.slot.some
    THEN [res |-> RPanic(Ev("more", path)), slot |-> NoState]
    ELSE LET r == Logged(Ev("more", path), more(self.slot.v, str, path \o <<"p">>)) IN
         [res  |-> r,
          slot |-> IF r.r = "Continue" THEN SomeState(r.st) ELSE NoState]

\* BoxableState::done_boxable: self.0.take().unwrap().done()
DoneBoxable(self, path) ==
    IF ~self.slot.some
    THEN [out |-> PanicV, log |-> Ev("done", path), slot |-> NoState]
    ELSE LET d == done(self.slot.v, path \o <<"p">>) IN
         [out |-> d.out, log |-> Ev("done", path) \o d.log, slot |-> NoState]

\* Box::more that hands back the handle without storing the advanced state
BoxMore_KeepOld(self, str, path) ==
    IF ~self.slot.some
    THEN RPanic(Ev("more", path))
    ELSE LET r == Logged(Ev("more", path), more(self.slot.v, str, path \o <<"p">>)) IN
         CASE r.r = "Done"     -> RDone(r.out, r.rest, r.log)
           [] r.r = "Continue" -> RCont(self, r.rest, r.log)
           [] OTHER            -> r

BoxMore(self, str, path) ==
    LET m == MoreBoxable(self, str, path) IN
    CASE m.res.r = "Done"     -> RDone(m.res.out, m.res.rest, m.res.log)
      [] m.res.r = "Continue" -> RCont(BoxableState(m.slot), m.res.rest, m.res.log)
      [] OTHER                -> m.res

BoxDone(self, path) ==
    LET d == DoneBoxable(self, path) IN OutOf(d.out, d.log)

BoxedInit(p, str, path) ==
    LET r == Logged(Ev("init", path), init(p.p, str, path \o <<"p">>)) IN
    CASE r.r = "Done"     -> RDone(r.out, r.rest, r.log)
      [] r.r = "Continue" -> RCont(BoxableState(SomeState(r.st)), r.rest, r.log)
      [] OTHER            -> r

BoxedEmpty(p, path) ==
    LET e == empty(p.p, path \o <<"p">>) IN
    OutOf(e.out, Ev("empty", path) \o e.log)

\* ---- dispatch on the parser / state type (the trait impl selected)
init(p, str, path) ==
    CASE p.k = "Character"    -> CharacterInit(p, str, path)
      [] p.k = "AnyCharacter" -> AnyCharacterInit(p, str, path)
      [] p.k = "Emit"         -> EmitInit(p, str, path)
      [] p.k = "Map"          -> MapInit(p, str, path)
      [] p.k = "VariantMap"   -> MapInit(p, str, path)
      [] p.k = "Discard"      -> DiscardInit(p, str, path)
      [] p.k = "Opt"          -> OptInit(p, str, path)
      [] p.k = "AndThen"      -> AndThenInit(p, str, path)
      [] p.k = "OrElse"       -> OrElseInit(p, str, path)
      [] p.k = "Plus"         -> PlusInit(p, str, path)
      [] p.k = "Star"         -> StarInit(p, str, path)
      [] p.k = "Buffered"     -> BufferedInit(p, str, path)
      [] p.k = "Boxed"        -> BoxedInit(p, str, path)

more(self, str, path) ==
    CASE self.k = "AnyCharacter"  -> AnyCharacterMore(self, str, path)
      [] self.k = "Emit"          -> EmitMore(self, str, path)
      [] self.k = "Map"           -> MapMore(self, str, path)
      [] self.k = "VariantMap"    -> MapMore(self, str, path)
      [] self.k = "Discard"       -> DiscardMore(self, str, path)
      [] self.k = "Opt"           -> OptMore(self, str, path)
      [] self.k \in {"InLhs", "InBetween", "InRhs"} -> AndThenStateMore(self, str, path)
      [] self.k \in {"Lhs", "Rhs"} -> OrElseStateMore(self, str, path)
      [] self.k = "StarState"     -> StarStateMore(self, str, path)
      [] self.k = "BufferedState" -> BufferedStateMore(self, str, path)
      [] self.k = "Box"           -> BoxMore(self, str, path)

done(self, path) ==
    CASE self.k = "AnyCharacter"  -> AnyCharacterDone(self, path)
      [] self.k = "Emit"          -> EmitDone(self, path)
      [] self.k = "Map"           -> MapDone(self, path)
      [] self.k = "VariantMap"    -> MapDone(self, path)
      [] self.k = "Discard"       -> DiscardDone(self, path)
      [] self.k = "Opt"           -> OptDone(self, path)
      [] self.k \in {"InLhs", "InBetween", "InRhs"} -> AndThenStateDone(self, path)
      [] self.k \in {"Lhs", "Rhs"} -> OrElseStateDone(self, path)
      [] self.k = "StarState"     -> StarStateDone(self, path)
      [] self.k = "BufferedState" -> BufferedStateDone(self, path)
      [] self.k = "Box"           -> BoxDone(self, path)

empty(p, path) ==
    CASE p.k = "AnyCharacter" -> AnyCharacterEmpty(p, path)
      [] p.k = "Emit"         -> EmitEmpty(p, path)
      [] p.k = "Map"          -> MapEmpty(p, path)
      [] p.k = "VariantMap"   -> MapEmpty(p, path)
      [] p.k = "Discard"      -> DiscardEmpty(p, path)
      [] p.k = "Opt"          -> OptEmpty(p, path)
      [] p.k = "AndThen"      -> AndThenEmpty(p, path)
      [] p.k = "OrElse"       -> OrElseEmpty(p, path)
      [] p.k = "Star"         -> StarEmpty(p, path)
      [] p.k = "Buffered"     -> BufferedEmpty(p, path)
      [] p.k = "Boxed"        -> BoxedEmpty(p, path)


\* ---------------------------------------------------------------- trait bounds
\* Output type of a parser (HasOutput::Output)
TCh       == [ty |-> "ch"]
TUnit     == [ty |-> "unit"]
TSeq      == [ty |-> "seq"]
TCow      == [ty |-> "cow"]
TOpt(a)   == [ty |-> "opt", of |-> a]
TPair(a, b) == [ty |-> "pair", a |-> a, b |-> b]
TRes(a)   == [ty |-> "res", of |-> a]

RECURSIVE Ty(_)
Ty(p) ==
    CASE p.k = "Character"    -> TCh
      [] p.k = "AnyCharacter" -> TOpt(TCh)
      [] p.k \in {"Emit", "Star", "Plus"} -> TSeq
      [] p.k \in {"Map", "VariantMap"} ->
           (CASE p.f = "MkSome" -> TOpt(Ty(p.p))
              [] p.f = "First"  -> Ty(p.p).a
              [] p.f = "Second" -> Ty(p.p).b
              [] p.f \in {"Validate", "AlwaysOk"} -> TRes(Ty(p.p))
              [] p.f = "TryMkSome"  -> TRes(TOpt(Ty(p.p).of))
              [] p.f = "TryDiscard" -> TRes(TUnit)
              [] p.f = "TryZip"     -> TRes(TPair(Ty(p.p).a.of, Ty(p.p).b))
              [] p.f = "ZipTry"     -> TRes(TPair(Ty(p.p).a, Ty(p.p).b.of))
              [] p.f = "TryZipTry"  -> TRes(TPair(Ty(p.p).a.of, Ty(p.p).b.of))
              [] p.f = "TryOpt"     -> TRes(TOpt(Ty(p.p).of.of)))
      [] p.k = "Discard"      -> TUnit
      [] p.k = "Opt"          -> TOpt(Ty(p.p))
      [] p.k = "AndThen"      -> TPair(Ty(p.p), Ty(p.q))
      [] p.k = "OrElse"       -> Ty(p.p)
      [] p.k = "Buffered"     -> TCow
      [] p.k = "Boxed"        -> Ty(p.p)

\* The parser has an impl of Committed
RECURSIVE IsCommitted(_)
IsCommitted(p) ==
    CASE p.k \in {"AnyCharacter", "Emit", "Star", "Opt"} -> TRUE
      [] p.k \in {"Character", "Plus"} -> FALSE
      [] p.k \in {"Map", "VariantMap", "Discard", "Buffered", "Boxed"} -> IsCommitted(p.p)
      [] p.k = "AndThen" -> IsCommitted(p.p) /\ IsCommitted(p.q)
      [] p.k = "OrElse"  -> IsCommitted(p.q)

\* The parser has an impl of Uncommitted (the where clauses of the impl hold)
RECURSIVE IsUncommitted(_)
IsUncommitted(p) ==
    CASE p.k \in {"Character", "AnyCharacter", "Emit"} -> TRUE
      [] p.k = "Map" ->
           /\ IsUncommitted(p.p)
           /\ (p.f \in {"First", "Second"} => Ty(p.p).ty = "pair")
           /\ (p.f \in {"TryMkSome", "TryDiscard"} => Ty(p.p).ty = "res")
           /\ (p.f \in {"TryZip", "TryZipTry"} =>
                  (Ty(p.p).ty = "pair" /\ Ty(p.p).a.ty = "res"))
           /\ (p.f \in {"ZipTry", "TryZipTry"} =>
                  (Ty(p.p).ty = "pair" /\ Ty(p.p).b.ty = "res"))
           /\ (p.f = "TryOpt" => (Ty(p.p).ty = "opt" /\ Ty(p.p).of.ty = "res"))
      [] p.k = "VariantMap" ->
           /\ IsUncommitted(p.p)
           /\ Ty(p.p).ty = "pair"
           /\ \/ p.f = "First"  /\ Ty(p.p).b = TUnit
              \/ p.f = "Second" /\ Ty(p.p).a = TUnit
      [] p.k \in {"Discard", "Opt", "Star", "Plus", "Buffered", "Boxed"} -> IsUncommitted(p.p)
      [] p.k = "AndThen" -> IsUncommitted(p.p) /\ IsUncommitted(p.q) /\ IsCommitted(p.q)
      [] p.k = "OrElse"  -> IsUncommitted(p.p) /\ IsUncommitted(p.q) /\ Ty(p.p) = Ty(p.q)

\* ---------------------------------------------------------------- parsers driven
IsDigit == Character(Digits)
IsA     == Character({"a"})
IsB     == Character({"b"})
ToSeq   == "toSequence"

Leaves == {IsDigit, IsA, AnyCharacter, Emit(ToSeq)}

Unary(S) ==
    UNION {{Opt(p), Star(p, ToSeq), Plus(p, ToSeq), Discard(p), Map(p, "MkSome"),
            Buffered(p), Boxed(p)} : p \in S}

Binary(S, T) == UNION {{AndThen(p, q), OrElse(p, q)} : <<p, q>> \in S \X T}

AB == AndThen(IsA, AnyCharacter)

\* parsers whose Outputs pass through fallible user code and the
\* failure-propagating adapters; check is the user's transform
Checked(check) == Map(OrElse(IsA, IsB), check)
CheckedAny(check) == Map(AnyCharacter, check)
FallibleWith(check) ==
    { Map(Checked(check), "TryMkSome"),
      Map(Checked(check), "TryDiscard"),
      Map(AndThen(Checked(check), AnyCharacter), "TryZip"),
      Map(AndThen(IsA, CheckedAny(check)), "ZipTry"),
      Map(AndThen(Checked(check), CheckedAny(check)), "TryZipTry"),
      Map(AndThen(Map(AndThen(Checked(check), AnyCharacter), "TryZip"),
                  CheckedAny(check)), "TryZipTry"),
      Map(Opt(Checked(check)), "TryOpt") }
FallibleParsers == FallibleWith("Validate")

Nested ==
    { IsB,
      OrElse(IsA, IsB),
      AndThen(IsA, Star(IsDigit, ToSeq)),
      AndThen(Star(IsDigit, ToSeq), AnyCharacter),
      AndThen(Star(IsDigit, ToSeq), Star(IsA, ToSeq)),
      AndThen(Plus(IsDigit, ToSeq), Opt(IsA)),
      AndThen(AB, AnyCharacter),
      AndThen(IsA, AndThen(AnyCharacter, AnyCharacter)),
      AndThen(IsA, Opt(IsB)),
      AndThen(Opt(IsA), Opt(IsB)),
      AndThen(IsA, OrElse(IsB, AnyCharacter)),
      AndThen(Buffered(Plus(IsDigit, ToSeq)), AnyCharacter),
      AndThen(Buffered(Plus(IsDigit, ToSeq)), Buffered(Star(IsA, ToSeq))),
      OrElse(AB, AndThen(IsB, AnyCharacter)),
      OrElse(Plus(IsDigit, ToSeq), Star(IsA, ToSeq)),
      OrElse(Plus(IsDigit, ToSeq), Emit(ToSeq)),
      OrElse(Plus(IsDigit, ToSeq), Plus(IsA, ToSeq)),
      OrElse(Map(IsA, "MkSome"), AnyCharacter),
      OrElse(Opt(IsA), AnyCharacter),
      OrElse(Buffered(AB), Buffered(Plus(IsDigit, ToSeq))),
      OrElse(OrElse(IsA, IsB), IsDigit),
      Star(AB, ToSeq),
      Plus(AB, ToSeq),
      Star(AndThen(IsA, Opt(IsB)), ToSeq),
      Star(OrElse(IsA, IsDigit), ToSeq),
      Star(Plus(IsDigit, ToSeq), ToSeq),
      Star(Star(IsDigit, ToSeq), ToSeq),
      Star(Opt(IsA), ToSeq),
      Star(Buffered(AB), ToSeq),
      Star(Boxed(AB), ToSeq),
      Buffered(Star(IsDigit, ToSeq)),
      Buffered(AndThen(IsA, Star(IsDigit, ToSeq))),
      Buffered(Star(AB, ToSeq)),
      Buffered(AB),
      Boxed(AB),
      Boxed(AndThen(IsA, Star(IsDigit, ToSeq))),
      Boxed(Buffered(AB)),
      Map(AB, "First"),
      Map(AB, "Second"),
      Map(Star(IsDigit, ToSeq), "MkSome"),
      VariantMap(AndThen(IsA, Discard(AnyCharacter)), "First"),
      VariantMap(AndThen(Discard(IsA), Star(IsDigit, ToSeq)), "Second"),
      Discard(AB),
      Discard(Star(IsDigit, ToSeq)),
      Opt(AB),
      Opt(Plus(IsDigit, ToSeq)),
      Opt(Buffered(AB)) }

Parsers == {p \in Leaves \cup Unary(Leaves) \cup Binary(Leaves, Leaves) \cup Nested
                   \cup FallibleParsers :
              IsUncommitted(p)}

RECURSIVE Strings(_)
Strings(n) ==
    IF n = 0 THEN {<<>>}
    ELSE LET S == Strings(n - 1) IN
         S \cup {Append(s, c) : s \in {x \in S : Len(x) = n - 1}, c \in Alphabet}

\* No parser tells one digit from another (the only predicates are isDigit,
\* is 'a', is 'b'), so inputs are taken up to renaming of digits: the digits
\* of an input make their first appearances in the order 1, 2, 3.
FirstUse(s) ==
    \A i \in 1..Len(s) :
        /\ s[i] = "2" => \E j \in 1..(i - 1) : s[j] = "1"
        /\ s[i] = "3" => \E j \in 1..(i - 1) : s[j] = "2"

Inputs == {s \in Strings(MaxLen) : FirstUse(s)}

\* ---------------------------------------------------------------- driver
VARIABLES
    parser,   \* the parser value under test
    input,    \* the whole input of this parse
    pos,      \* number of tokens handed to the parser so far
    phase,    \* "start", "suspended", "done", "finished", "declined", "diverged"
    state,    \* the suspended State, when phase = "suspended"
    out,      \* the final Output, when phase is "done" or "finished"
    last,     \* the last call made: operation, fragment, state before, result
              \* (for finish also the call before it)
    cuts,     \* positions of the fragment boundaries so far
    fn,       \* adapter layer: the adapter whose apply is called
    arg,      \* adapter layer: its argument
    ret       \* adapter layer: what apply returned

vars == <<parser, input, pos, phase, state, out, last, cuts, fn, arg, ret>>

\* the variables of the adapter layer, untouched by a parse
adapterVars == <<fn, arg, ret>>

NoSt  == [k |-> "none"]
NoOut == [t |-> "nothing"]

Init ==
    /\ parser \in Parsers
    /\ input \in Inputs
    /\ pos = 0
    /\ phase = "start"
    /\ state = NoSt
    /\ out = NoOut
    /\ last = [op |-> "none"]
    /\ cuts = {}
    /\ fn = "none"
    /\ arg = NoOut
    /\ ret = NoOut

Fragment(n) == SubSeq(input, pos + 1, pos + n)

\* begin: Uncommitted::init on the next fragment.  A decline on an empty
\* fragment leaves the driver where it was; a decline on tokens ends the parse.
Begin ==
    /\ phase = "start"
    /\ \E n \in 0..(Len(input) - pos) :
         LET frag == Fragment(n)
             res  == init(parser, frag, <<>>) IN
         /\ last' = [op |-> "begin", frag |-> frag, pre |-> state, res |-> res]
         /\ pos' = pos + n
         /\ cuts' = cuts \cup {pos + n}
         /\ phase' = CASE res.r = "Done"     -> "done"
                       [] res.r = "Continue" -> "suspended"
                       [] res.r = "None"     -> IF frag = <<>> THEN "start" ELSE "declined"
                       [] OTHER              -> "diverged"
         /\ state' = IF res.r = "Continue" THEN res.st ELSE NoSt
         /\ out' = IF res.r = "Done" THEN res.out ELSE NoOut
    /\ UNCHANGED <<parser, input, adapterVars>>

\* resume: Stateful::more on the next fragment
Resume ==
    /\ phase = "suspended"
    /\ \E n \in 0..(Len(input) - pos) :
         LET frag == Fragment(n)
             res  == more(state, frag, <<>>) IN
         /\ last' = [op |-> "resume", frag |-> frag, pre |-> state, res |-> res]
         /\ pos' = pos + n
         /\ cuts' = cuts \cup {pos + n}
         /\ phase' = CASE res.r = "Done"     -> "done"
                       [] res.r = "Continue" -> "suspended"
                       [] OTHER              -> "diverged"
         /\ state' = IF res.r = "Continue" THEN res.st ELSE NoSt
         /\ out' = IF res.r = "Done" THEN res.out ELSE NoOut
    /\ UNCHANGED <<parser, input, adapterVars>>

\* finish: Stateful::done, once no further input will arrive
Finish ==
    /\ phase = "suspended"
    /\ pos = Len(input)
    /\ LET res == done(state, <<>>) IN
         /\ last' = [op |-> "finish", pre |-> state, res |-> res,
                      prev |-> [op |-> last.op, frag |-> last.frag]]
         /\ out' = res.out
    /\ phase' = "finished"
    /\ state' = NoSt
    /\ UNCHANGED <<parser, input, pos, cuts, adapterVars>>

\* onEmpty: Committed::empty, when the stream is conclusively empty at start
OnEmpty ==
    /\ phase = "start"
    /\ pos = Len(input)
    /\ IsCommitted(parser)
    /\ LET res == empty(parser, <<>>) IN
         /\ last' = [op |-> "empty", pre |-> state, res |-> res]
         /\ out' = res.out
    /\ phase' = "finished"
    /\ UNCHANGED <<parser, input, pos, state, cuts, adapterVars>>

Next == Begin \/ Resume \/ Finish \/ OnEmpty

Spec == Init /\ [][Next]_vars

\* ---------------------------------------------------------------- adapters
\* The functional-adapter layer on its own: one adapter is applied to one
\* argument of the shape its impl of Function accepts.
Payloads == {Ch("1"), Ch("a")}
Errors   == {"e1", "e2"}

Results(S)    == {Ok(v) : v \in S} \cup {Err(e) : e \in Errors}
PairsOf(S, T) == {Pair(a, b) : a \in S, b \in T}

\* ((..((a1,a2),a3)..),an): the pair that sequencing n parsers produces
RECURSIVE Nest(_)
Nest(xs) ==
    IF Len(xs) = 2 THEN Pair(xs[1], xs[2])
    ELSE Pair(Nest(SubSeq(xs, 1, Len(xs) - 1)), xs[Len(xs)])

Tuples(n) == [1..n -> Payloads]

TryAdapters == {"TryMkSome", "TryFirst", "TrySecond", "TryDiscard",
                "TryZip", "ZipTry", "TryZipTry", "TryOpt"}

Arity(f) ==
    CASE f = "Function2" -> 2
      [] f = "Function3" -> 3
      [] f = "Function4" -> 4
      [] f = "Function5" -> 5
      [] f = "Function6" -> 6

FlattenAdapters == {"Function2", "Function3", "Function4", "Function5", "Function6"}

ArgsOf(f) ==
    CASE f \in {"TryMkSome", "TryDiscard"} -> Results(Payloads)
      [] f \in {"TryFirst", "TrySecond"}   -> Results(PairsOf(Payloads, {UnitV, Ch("2")}))
      [] f = "TryZip"     -> PairsOf(Results(Payloads), Payloads)
      [] f = "ZipTry"     -> PairsOf(Payloads, Results(Payloads))
      [] f = "TryZipTry"  -> PairsOf(Results(Payloads), Results(Payloads))
      [] f = "TryOpt"     -> {NoneV} \cup {SomeV(r) : r \in Results(Payloads)}
      [] f \in FlattenAdapters -> {Nest(xs) : xs \in Tuples(Arity(f))}

AdapterInit ==
    /\ parser = IsA
    /\ input = <<>>
    /\ pos = 0
    /\ phase = "start"
    /\ state = NoSt
    /\ out = NoOut
    /\ last = [op |-> "none"]
    /\ cuts = {}
    /\ fn \in TryAdapters \cup FlattenAdapters
    /\ arg \in ArgsOf(fn)
    /\ ret = NoOut

\* apply of a failure-propagating adapter
ApplyTry ==
    /\ fn \in TryAdapters
    /\ ret = NoOut
    /\ ret' = Apply(fn, arg)
    /\ UNCHANGED <<parser, input, pos, phase, state, out, last, cuts, fn, arg>>

\* apply of a tuple-flattening adapter
ApplyFlatten ==
    /\ fn \in FlattenAdapters
    /\ ret = NoOut
    /\ ret' = Apply(fn, arg)
    /\ UNCHANGED <<parser, input, pos, phase, state, out, last, cuts, fn, arg>>

AdapterNext == ApplyTry \/ ApplyFlatten

AdapterSpec == AdapterInit /\ [][AdapterNext]_vars


\* ---------------------------------------------------------------- reference runs
\* Content of an Output, whatever owns its buffers (Cow compares by content)
RECURSIVE Content(_)
Content(v) ==
    CASE v.t = "cow"  -> Borrowed(v.str)
      [] v.t = "pair" -> Pair(Content(v.a), Content(v.b))
      [] v.t = "some" -> SomeV(Content(v.v))
      [] v.t = "seq"  -> SeqV([i \in 1..Len(v.s) |-> Content(v.s[i])])
      [] OTHER        -> v

\* The parse of the whole input handed over as a single fragment
Whole(p, inp) == init(p, inp, <<>>)

\* Its final Output: the Done value, finish of the suspended state at the end
\* of input, or onEmpty of a Committed parser when there is no input at all
WholeOutput(p, inp) ==
    LET r == Whole(p, inp) IN
    CASE r.r = "Done"     -> [has |-> TRUE, out |-> r.out]
      [] r.r = "Continue" -> [has |-> TRUE, out |-> done(r.st, <<>>).out]
      [] r.r = "None" /\ inp = <<>> /\ IsCommitted(p) ->
                             [has |-> TRUE, out |-> empty(p, <<>>).out]
      [] OTHER            -> [has |-> FALSE]

HasOutput == phase \in {"done", "finished"}

\* ---------------------------------------------------------------- C1
\* C1: chunk invariance.  Whenever a parse fed fragment by fragment has
\* produced its final Output (a Done, or finish at the end of the input), the
\* parse of the same input as one fragment produces an Output too, and the
\* two are equal in content.
C1_ChunkInvariance ==
    HasOutput =>
        LET w == WholeOutput(parser, input) IN
        w.has /\ Content(w.out) = Content(out)

\* a sequencing parser that got its Output after two or more resumed fragments
C1_Witness ==
    /\ HasOutput
    /\ parser.k = "AndThen"
    /\ last.op \in {"resume", "finish"}
    /\ Cardinality({c \in cuts : 0 < c /\ c < Len(input)}) >= 2

\* ---------------------------------------------------------------- C2
\* p alone on the whole input: its Output and what it leaves (S1 is the part
\* consumed, S2 the rest)
LeftRun(p, inp) ==
    LET r == Whole(p, inp) IN
    CASE r.r = "Done"     -> [has |-> TRUE, v |-> r.out, rest |-> r.rest]
      [] r.r = "Continue" -> [has |-> TRUE, v |-> done(r.st, <<>>).out, rest |-> r.rest]
      [] OTHER            -> [has |-> FALSE]

\* q alone on S2
RightRun(q, inp) == WholeOutput(q, inp)

\* The two feedings of the two-token scenario, through AndThen::init and
\* AndThenState::more
TwoTokens(q)  == AndThen(IsA, q)
FedWhole(q)   == init(TwoTokens(q), <<"a", "b">>, <<>>)
FedFirst(q)   == init(TwoTokens(q), <<"a">>, <<>>)
FedSecond(q)  == more(FedFirst(q).st, <<"b">>, <<>>)

\* C2: sequencing law.  When p alone turns a prefix S1 of the input into v1 and
\* q alone turns the rest S2 into v2, every Output AndThen(p,q) reaches over
\* that input, however it was cut into fragments, is the pair (v1, v2); and
\* 'a' then 'b' fed as "a","b" suspends and then completes with the same pair
\* that "ab" completes with at once.
C2_SequencingLaw ==
    /\ (HasOutput /\ parser.k = "AndThen") =>
          LET l == LeftRun(parser.p, input) IN
          l.has =>
             LET r == RightRun(parser.q, l.rest) IN
             r.has => Content(out) = Content(Pair(l.v, r.out))
    /\ FedWhole(IsB).r = "Done" /\ FedWhole(IsB).out = Pair(Ch("a"), Ch("b"))
    /\ FedFirst(IsB).r = "Continue"
    /\ FedSecond(IsB).r = "Done" /\ FedSecond(IsB).out = Pair(Ch("a"), Ch("b"))
    /\ FedWhole(AnyCharacter).r = "Done"
    /\ FedSecond(AnyCharacter).r = "Done"
    /\ FedSecond(AnyCharacter).out = FedWhole(AnyCharacter).out
    /\ FedWhole(AnyCharacter).out = Pair(Ch("a"), SomeV(Ch("b")))

\* S1 and S2 both non-empty, a fragment boundary strictly inside S1, and the
\* pair delivered by a resume
C2_Witness ==
    /\ HasOutput
    /\ parser.k = "AndThen"
    /\ last.op = "resume"
    /\ LET l == LeftRun(parser.p, input) IN
         /\ l.has
         /\ l.rest # <<>>
         /\ RightRun(parser.q, l.rest).has
         /\ \E c \in cuts : 0 < c /\ c < Len(input) - Len(l.rest)

\* boundary exactly at the S1/S2 split and another inside S2
C2_AtSplit ==
    /\ HasOutput
    /\ parser.k = "AndThen"
    /\ LET l == LeftRun(parser.p, input) IN
         /\ l.has
         /\ RightRun(parser.q, l.rest).has
         /\ Len(input) - Len(l.rest) \in cuts
         /\ \E c \in cuts : Len(input) - Len(l.rest) < c /\ c < Len(input)

\* ---------------------------------------------------------------- C3
\* res is what OrElse returns when it hands over to q and q returned qres:
\* same decline / Done value / stream position, q's state wrapped as Rhs
AsRhs(res, qres) ==
    /\ res.r = qres.r
    /\ res.r \in {"None", "Done", "Continue"} => res.rest = qres.rest
    /\ res.r = "Done" => res.out = qres.out
    /\ res.r = "Continue" => res.st = Rhs(qres.st)

\* C3: choice law, decline half.  When p.begin declines on a fragment,
\* OrElse(p,q).begin returns what q.begin returns on that fragment; a state
\* obtained that way answers every resume and finish as q's own state does;
\* and OrElse(p,q).onEmpty() is q.onEmpty().
C3_ChoiceDecline ==
    parser.k = "OrElse" =>
        /\ (last.op = "begin" /\ init(parser.p, last.frag, <<>>).r = "None") =>
               AsRhs(last.res, init(parser.q, last.frag, <<>>))
        /\ (last.op = "resume" /\ last.pre.k = "Rhs") =>
               AsRhs(last.res, more(last.pre.s, last.frag, <<>>))
        /\ (last.op = "finish" /\ last.pre.k = "Rhs") =>
               last.res.out = done(last.pre.s, <<>>).out
        /\ last.op = "empty" => last.res.out = empty(parser.q, <<>>).out

\* p declined at begin, q suspended, and a later resume completed on q's side
C3_Witness ==
    /\ parser.k = "OrElse"
    /\ last.op = "resume"
    /\ last.pre.k = "Rhs"
    /\ last.frag # <<>>
    /\ phase = "done"
    /\ init(parser.p, SubSeq(input, 1, 1), <<>>).r = "None"

\* ---------------------------------------------------------------- C4
\* Some call in the log went to the given side ("p" or "q") of the top parser
Invoked(log, side) ==
    \E i \in 1..Len(log) : Len(log[i].at) >= 1 /\ log[i].at[1] = side

\* What one call on a choice must satisfy
Committed_Call ==
    /\ (last.op = "begin" /\ last.res.r \in {"Done", "Continue"}) =>
          /\ (init(parser.p, last.frag, <<>>).r \in {"Done", "Continue"}) =>
                /\ ~Invoked(last.res.log, "q")
                /\ (last.res.r = "Continue" => last.res.st.k = "Lhs")
          /\ (init(parser.p, last.frag, <<>>).r = "None") =>
                (last.res.r = "Continue" => last.res.st.k = "Rhs")
    /\ (last.op \in {"resume", "finish"} /\ last.pre.k = "Lhs") =>
          /\ ~Invoked(last.res.log, "q")
          /\ Invoked(last.res.log, "p")
    /\ (last.op \in {"resume", "finish"} /\ last.pre.k = "Rhs") =>
          /\ ~Invoked(last.res.log, "p")
          /\ Invoked(last.res.log, "q")

\* C4: choice law, commitment half.  The state OrElse(p,q).begin returns
\* records the side that produced a result (Lhs when p did); resume and finish
\* on a state call only the recorded side, so q is never called once p has
\* returned a result; and no resume changes the side recorded.
C4_ChoiceCommit ==
    /\ [](parser.k = "OrElse" => Committed_Call)
    /\ [][(state.k \in {"Lhs", "Rhs"} /\ state'.k \in {"Lhs", "Rhs"})
             => state'.k = state.k]_vars

\* p committed at begin and a later resume on tokens left the choice suspended
C4_Witness ==
    /\ parser.k = "OrElse"
    /\ last.op = "resume"
    /\ last.pre.k = "Lhs"
    /\ last.frag # <<>>
    /\ state.k = "Lhs"

\* ---------------------------------------------------------------- C5
\* C5 as stated: on empty input Star(p) yields the zero accumulator, and no
\* begin of Star(p) declines.
C5_AsStated ==
    parser.k = "Star" =>
        /\ (input = <<>> /\ HasOutput) => out = SeqV(<<>>)
        /\ last.op = "begin" => last.res.r # "None"

\* C5, amended: on empty input Star(p) yields the zero accumulator, through
\* onEmpty; Star(p).begin declines exactly when the stream it is given is
\* empty, and never on a stream that holds a token.
C5_StarLaw ==
    parser.k = "Star" =>
        /\ (input = <<>> /\ HasOutput) => out = SeqV(<<>>)
        /\ last.op = "empty" => last.res.out = SeqV(<<>>)
        /\ last.op = "begin" => (last.res.r = "None" <=> last.frag = <<>>)
        /\ phase # "declined"

\* begin declined on the empty stream and onEmpty then gave the zero value
C5_Witness ==
    /\ parser.k = "Star"
    /\ last.op = "empty"
    /\ phase = "finished"
    /\ 0 \in cuts
    /\ out = SeqV(<<>>)

\* ---------------------------------------------------------------- C6
\* C6: Plus law.  On a stream on which p.begin declines, Plus(p).begin
\* declines: no state, no Output, and the stream is where it was.
C6_PlusDeclines ==
    (parser.k = "Plus" /\ last.op = "begin"
        /\ init(parser.p, last.frag, <<>>).r = "None") =>
        /\ last.res.r = "None"
        /\ last.res.rest = last.frag
        /\ state = NoSt
        /\ out = NoOut
        /\ phase \in {"start", "declined"}

\* Plus declined on a fragment that holds tokens
C6_Witness ==
    /\ parser.k = "Plus"
    /\ last.op = "begin"
    /\ Len(last.frag) >= 2
    /\ last.res.r = "None"
    /\ phase = "declined"

\* ---------------------------------------------------------------- C7
\* The substring p consumes when handed the whole input at once
ConsumedWhole(p, inp) ==
    LET r == Whole(p, inp) IN
    IF r.r \in {"Done", "Continue"} THEN Consumed(inp, r.rest) ELSE <<>>

\* C7: buffering round-trip.  The content Buffered(p) delivers, borrowed or
\* owned, at Done or at finish, under any fragmentation, is the substring p
\* consumes given the whole input at once.
C7_BufferRoundTrip ==
    (parser.k = "Buffered" /\ HasOutput) =>
        /\ out.t = "cow"
        /\ out.str = ConsumedWhole(parser.p, input)

\* an owned result completed by a resume that left tokens of its fragment
C7_Witness ==
    /\ parser.k = "Buffered"
    /\ last.op = "resume"
    /\ phase = "done"
    /\ last.res.rest # <<>>
    /\ out.own
    /\ Len(out.str) >= 2

\* a borrowed result that left tokens of its fragment
C7_Borrowed ==
    /\ parser.k = "Buffered"
    /\ last.op = "begin"
    /\ phase = "done"
    /\ last.res.rest # <<>>
    /\ ~out.own
    /\ Len(out.str) >= 2

\* ---------------------------------------------------------------- C8
\* C8: decline consumes nothing.  Whenever begin of any parser returns None,
\* the stream after the call is the stream before it.
C8_DeclineConsumesNothing ==
    (last.op = "begin" /\ last.res.r = "None") => last.res.rest = last.frag

\* a choice that tried both alternatives on tokens and declined
C8_Witness ==
    /\ parser.k = "OrElse"
    /\ last.op = "begin"
    /\ last.res.r = "None"
    /\ last.frag # <<>>
    /\ Invoked(last.res.log, "p")
    /\ Invoked(last.res.log, "q")

\* ---------------------------------------------------------------- C9
\* C9: Character(predicate).begin consumes exactly the next token and returns
\* Done(token) when the stream is non-empty and the predicate holds on it;
\* otherwise it declines and consumes nothing; it never suspends.
C9_Character ==
    parser.k = "Character" =>
        /\ last.op = "begin" =>
              IF last.frag # <<>> /\ Head(last.frag) \in parser.pred
              THEN /\ last.res.r = "Done"
                   /\ last.res.out = Ch(Head(last.frag))
                   /\ last.res.rest = Tail(last.frag)
              ELSE /\ last.res.r = "None"
                   /\ last.res.rest = last.frag
        /\ phase # "suspended"
        /\ state = NoSt
        /\ last.op \in {"none", "begin"}

\* isDigit fed "1"
C9_Witness ==
    /\ parser = IsDigit
    /\ last.op = "begin"
    /\ last.frag = <<"1">>
    /\ phase = "done"
    /\ out = Ch("1")

\* isDigit fed "a"
C9_Declined ==
    /\ parser = IsDigit
    /\ last.op = "begin"
    /\ last.frag = <<"a">>
    /\ phase = "declined"

\* ---------------------------------------------------------------- C10
\* The longest prefix of s whose tokens all satisfy pred
RECURSIVE Run(_, _)
Run(s, pred) ==
    IF s # <<>> /\ Head(s) \in pred THEN <<Head(s)>> \o Run(Tail(s), pred) ELSE <<>>

\* C10: Star accumulation across fragments.  For Star(Character(pred)) over a
\* run of matching tokens cut into any fragments, the Output (at the first
\* non-matching token, or from finish at the end of input) holds every token
\* of the run exactly once, in input order.
C10_StarAccumulates ==
    (parser.k = "Star" /\ parser.p.k = "Character" /\ HasOutput) =>
        LET run == Run(input, parser.p.pred) IN
        out = SeqV([i \in 1..Len(run) |-> Ch(run[i])])

\* isDigit* fed "12", "3", the empty fragment, then the end of input
C10_Witness ==
    /\ parser = Star(IsDigit, ToSeq)
    /\ input = <<"1", "2", "3">>
    /\ cuts = {2, 3}
    /\ last.op = "finish"
    /\ last.prev.op = "resume"
    /\ last.prev.frag = <<>>
    /\ out = SeqV(<<Ch("1"), Ch("2"), Ch("3")>>)

\* ---------------------------------------------------------------- C11
\* C11: Opt(p).begin on a stream that holds a token never declines.  If p
\* declines it returns Done(absent) and the stream is untouched; if p completes
\* with v it returns Done(present(v)); if p suspends, the Done of a later
\* resume and the result of finish are present(v) for p's own v.
C11_OptOnTokens ==
    parser.k = "Opt" =>
        /\ (last.op = "begin" /\ last.frag # <<>>) =>
              LET pr == init(parser.p, last.frag, <<>>) IN
              /\ last.res.r # "None"
              /\ pr.r = "None" =>
                    (last.res.r = "Done" /\ last.res.out = NoneV
                        /\ last.res.rest = last.frag)
              /\ pr.r = "Done" =>
                    (last.res.r = "Done" /\ last.res.out = SomeV(pr.out)
                        /\ last.res.rest = pr.rest)
              /\ pr.r = "Continue" =>
                    (last.res.r = "Continue" /\ last.res.st = Opt(pr.st))
        /\ (last.op = "resume" /\ last.res.r = "Done") =>
              last.res.out = SomeV(more(last.pre.p, last.frag, <<>>).out)
        /\ last.op = "finish" =>
              last.res.out = SomeV(done(last.pre.p, <<>>).out)

\* Opt(isDigit) fed a letter: absent, the letter still next
C11_Witness ==
    /\ parser = Opt(IsDigit)
    /\ last.op = "begin"
    /\ last.frag = <<"a">>
    /\ phase = "done"
    /\ out = NoneV
    /\ last.res.rest = <<"a">>

\* Opt(isDigit) fed a digit: present
C11_Present ==
    /\ parser = Opt(IsDigit)
    /\ last.op = "begin"
    /\ last.frag = <<"1">>
    /\ out = SomeV(Ch("1"))

\* an Opt that suspended and completed in a resume
C11_Resumed ==
    /\ parser.k = "Opt"
    /\ last.op = "resume"
    /\ phase = "done"
    /\ out.t = "some"

\* ---------------------------------------------------------------- C12
\* C12: Opt defers on an empty stream.  Opt(p).begin on an empty stream
\* returns None, never Done(absent); a parse of Opt(p) that was handed only
\* empty fragments has no Output from begin, and gets the Output absent from
\* the terminal onEmpty call alone.
C12_OptDefers ==
    parser.k = "Opt" =>
        /\ (last.op = "begin" /\ last.frag = <<>>) =>
              (last.res.r = "None" /\ phase = "start" /\ out = NoOut)
        /\ (pos = 0 /\ HasOutput) => (last.op = "empty" /\ out = NoneV)
        /\ (last.op = "empty") => out = NoneV

\* begin deferred on the empty stream, then onEmpty decided: absent
C12_Witness ==
    /\ parser.k = "Opt"
    /\ 0 \in cuts
    /\ last.op = "empty"
    /\ phase = "finished"
    /\ out = NoneV

\* ---------------------------------------------------------------- C13
\* C13 as stated: AnyCharacter.begin returns None only when the stream is
\* empty and no more input will come; on a fragment that is merely exhausted
\* it suspends.
C13_AsStated ==
    (parser.k = "AnyCharacter" /\ last.op = "begin") =>
        /\ last.res.r = "None" => (last.frag = <<>> /\ pos = Len(input))
        /\ (last.frag = <<>> /\ pos < Len(input)) => last.res.r = "Continue"

\* C13, amended: AnyCharacter.begin returns None exactly when the stream it is
\* given is currently empty, whether or not later fragments hold tokens, and
\* consumes nothing; it never returns Continue; on a stream that holds a token
\* it returns Done(Some(token)) and consumes that token.
C13_AnyCharacterBegin ==
    parser.k = "AnyCharacter" =>
        /\ last.op = "begin" =>
              IF last.frag = <<>>
              THEN last.res.r = "None" /\ last.res.rest = last.frag
              ELSE /\ last.res.r = "Done"
                   /\ last.res.out = SomeV(Ch(Head(last.frag)))
                   /\ last.res.rest = Tail(last.frag)
        /\ phase # "suspended"

\* begin declined on an exhausted fragment while tokens were still to come
C13_Witness ==
    /\ parser.k = "AnyCharacter"
    /\ last.op = "begin"
    /\ last.frag = <<>>
    /\ pos < Len(input)
    /\ last.res.r = "None"

\* ---------------------------------------------------------------- C14
\* C14: Emit(factory).begin declines on an empty stream; on a stream that
\* holds a token it returns Done(factory.build()) at once, consumes nothing
\* and never suspends; Emit(factory).onEmpty() is factory.build().
C14_Emit ==
    parser.k = "Emit" =>
        /\ last.op = "begin" =>
              IF last.frag = <<>>
              THEN last.res.r = "None"
              ELSE /\ last.res.r = "Done"
                   /\ last.res.out = Build(parser.f)
                   /\ last.res.rest = last.frag
        /\ phase # "suspended"
        /\ last.op = "empty" => last.res.out = Build(parser.f)

\* Emit completed on a stream of tokens and consumed none
C14_Witness ==
    /\ parser.k = "Emit"
    /\ last.op = "begin"
    /\ Len(last.frag) >= 2
    /\ phase = "done"
    /\ last.res.rest = last.frag

\* onEmpty of Emit
C14_OnEmpty ==
    /\ parser.k = "Emit"
    /\ last.op = "empty"
    /\ out = SeqV(<<>>)

\* ---------------------------------------------------------------- C15
\* the calls a log records under one side, by operation
CallsOf(log, side, op) ==
    {i \in 1..Len(log) : log[i].at = <<side>> /\ log[i].op = op}

\* C15: finish on a suspended AndThen yields (p-state.finish(), q.onEmpty())
\* when p is still in progress, (held, q.onEmpty()) when suspended between the
\* two parsers, and (held, q-state.finish()) when suspended inside q; finish
\* calls no begin and no resume, on either side.
C15_AndThenFinish ==
    (parser.k = "AndThen" /\ last.op = "finish") =>
        LET st  == last.pre
            log == last.res.log IN
        /\ st.k \in {"InLhs", "InBetween", "InRhs"}
        /\ \A i \in 1..Len(log) : log[i].op \in {"done", "empty"}
        /\ st.k = "InLhs" =>
              /\ last.res.out = Pair(done(st.fst, <<>>).out, empty(st.snd, <<>>).out)
              /\ CallsOf(log, "p", "done") # {}
              /\ CallsOf(log, "q", "empty") # {}
        /\ st.k = "InBetween" =>
              /\ last.res.out = Pair(st.fst, empty(st.snd, <<>>).out)
              /\ ~Invoked(log, "p")
              /\ CallsOf(log, "q", "empty") # {}
        /\ st.k = "InRhs" =>
              /\ last.res.out = Pair(st.fst, done(st.snd, <<>>).out)
              /\ ~Invoked(log, "p")
              /\ CallsOf(log, "q", "done") # {}
              /\ CallsOf(log, "q", "empty") = {}

\* finish between the two parsers: 'a' held, AnyCharacter.onEmpty() = None
C15_Witness ==
    /\ parser = AB
    /\ last.op = "finish"
    /\ last.pre.k = "InBetween"
    /\ out = Pair(Ch("a"), NoneV)

\* finish while p is in progress
C15_InLhs ==
    /\ parser.k = "AndThen"
    /\ last.op = "finish"
    /\ last.pre.k = "InLhs"
    /\ out.a.t = "seq" /\ out.a.s # <<>>

\* finish inside q
C15_InRhs ==
    /\ parser.k = "AndThen"
    /\ last.op = "finish"
    /\ last.pre.k = "InRhs"
    /\ out.b.t = "seq" /\ out.b.s # <<>>

\* ---------------------------------------------------------------- C16
\* the call in which p completed, if the last call is one
PCompleted ==
    CASE last.op = "begin" -> init(parser.p, last.frag, <<>>)
      [] last.op = "resume" /\ last.pre.k = "InLhs" -> more(last.pre.fst, last.frag, <<>>)
      [] OTHER -> [r |-> "no"]

\* C16: in the very call where p completes, AndThen attempts q.begin on what
\* p left of the fragment: the call returns Done if q completes, a state
\* inside q if q suspends, and the in-between state only if q.begin declined;
\* once p has completed the state is never again one with p in progress.
C16_LeftToRight ==
    /\ [](parser.k = "AndThen" =>
            LET pr == PCompleted IN
            pr.r = "Done" =>
               LET qr == init(parser.q, pr.rest, <<>>) IN
               /\ CallsOf(last.res.log, "q", "init") # {}
               /\ qr.r = "Done" =>
                     (last.res.r = "Done" /\ last.res.out = Pair(pr.out, qr.out)
                         /\ last.res.rest = qr.rest)
               /\ qr.r = "Continue" =>
                     (last.res.r = "Continue" /\ last.res.st.k = "InRhs")
               /\ qr.r = "None" =>
                     (last.res.r = "Continue" /\ last.res.st.k = "InBetween")
               /\ (last.res.r = "Continue" /\ last.res.st.k = "InBetween") =>
                     (qr.r = "None" /\ pr.rest = <<>>))
    /\ [][state.k \in {"InBetween", "InRhs"} => state'.k # "InLhs"]_vars

\* p completed in a resume and q completed on the rest of the same fragment
C16_Witness ==
    /\ parser.k = "AndThen"
    /\ last.op = "resume"
    /\ last.pre.k = "InLhs"
    /\ Len(last.frag) >= 2
    /\ phase = "done"

\* p completed at the end of a fragment: q.begin declined, in-between state
C16_InBetween ==
    /\ parser = AB
    /\ last.op = "begin"
    /\ last.frag = <<"a">>
    /\ state.k = "InBetween"

\* p completed and q suspended in the same call
C16_InRhs ==
    /\ parser.k = "AndThen"
    /\ last.op = "begin"
    /\ init(parser.p, last.frag, <<>>).r = "Done"
    /\ init(parser.p, last.frag, <<>>).rest # <<>>
    /\ state.k = "InRhs"

\* ---------------------------------------------------------------- C17
\* states of AndThen that hold p's completed value
HoldsLeft(st) == st.k \in {"InBetween", "InRhs"}

\* C17: once p has completed inside an AndThen, the left value the state holds
\* is content-equal to the value p produced, no later resume changes it, and
\* the first component of the pair that a later resume or finish delivers is
\* content-equal to it.
C17_HeldLeftValue ==
    /\ []((parser.k = "AndThen" /\ HoldsLeft(state)) =>
             LET l == LeftRun(parser.p, input) IN
             l.has /\ Content(state.fst) = Content(l.v))
    /\ [][(HoldsLeft(state) /\ HoldsLeft(state')) => state'.fst = state.fst]_vars
    /\ [][(HoldsLeft(state) /\ HasOutput') =>
             Content(out'.a) = Content(state.fst)]_vars

\* p completed in begin with a borrowed slice, the state held it owned across
\* a resume, and finish delivered it as the first component
C17_Witness ==
    /\ parser = AndThen(Buffered(Plus(IsDigit, ToSeq)), Buffered(Star(IsA, ToSeq)))
    /\ Len(input) = 3
    /\ 2 \in cuts
    /\ last.op = "finish"
    /\ last.prev.op = "resume"
    /\ last.pre.k = "InRhs"
    /\ LeftRun(parser.p, input).v = Borrowed(<<"1">>)
    /\ last.pre.fst = Owned(<<"1">>)
    /\ out.a = Owned(<<"1">>)

\* ---------------------------------------------------------------- C18
\* C18: every Output of Plus(p), whether the Done of begin or of a resume or
\* the result of finish, has at least one occurrence of p folded into the
\* accumulator, also when the first occurrence suspended inside begin.
C18_PlusHasOne ==
    (parser.k = "Plus" /\ HasOutput) => Len(out.s) >= 1

\* the first occurrence suspended in begin and finish delivered an
\* accumulator with nothing folded in
C18_EmptyPlus ==
    /\ parser = Plus(AB, ToSeq)
    /\ input = <<"a">>
    /\ last.op = "finish"
    /\ last.pre = StarState(AB, SomeState(InBetween(Ch("a"), AnyCharacter)), SeqV(<<>>))
    /\ out = SeqV(<<>>)

\* ---------------------------------------------------------------- C19
Wrappers == {"Map", "VariantMap", "Discard"}

\* the Output a wrapper makes of its inner parser's Output
Wrapped(w, v) == IF w.k = "Discard" THEN UnitV ELSE Apply(w.f, v)

\* res is the inner result pr seen through the wrapper w: the same decline,
\* suspension or completion at the same stream position
Transparent(w, res, pr) ==
    /\ res.r = pr.r
    /\ res.r \in {"None", "Done", "Continue"} => res.rest = pr.rest
    /\ res.r = "Done" => res.out = Wrapped(w, pr.out)
    /\ res.r = "Continue" => (res.st.k = w.k /\ res.st.p = pr.st)

\* C19: Map(p,f), VariantMap(p,f) and Discard(p) decline, suspend and complete
\* exactly when p does and consume exactly the tokens p consumes; their Output
\* is f of p's Output for Map and VariantMap and unit for Discard, whether it
\* comes from begin, resume, finish or onEmpty.
C19_Transparent ==
    parser.k \in Wrappers =>
        /\ last.op = "begin" =>
              Transparent(parser, last.res, init(parser.p, last.frag, <<>>))
        /\ last.op = "resume" =>
              Transparent(last.pre, last.res, more(last.pre.p, last.frag, <<>>))
        /\ last.op = "finish" =>
              last.res.out = Wrapped(last.pre, done(last.pre.p, <<>>).out)
        /\ last.op = "empty" =>
              last.res.out = Wrapped(parser, empty(parser.p, <<>>).out)

\* Map over a sequence: suspended with p, completed with p in a resume that
\* left a token, Output the second component of p's pair
C19_Witness ==
    /\ parser = Map(AB, "Second")
    /\ last.op = "resume"
    /\ last.pre.k = "Map"
    /\ last.res.r = "Done"
    /\ last.res.rest # <<>>
    /\ out = SomeV(Ch("1"))

\* Discard declines with p, and finishes with unit
C19_Discard ==
    /\ parser.k = "Discard"
    /\ \/ last.op = "begin" /\ last.frag # <<>> /\ last.res.r = "None"
       \/ last.op = "finish" /\ out = UnitV

\* VariantMap finishing a suspended p
C19_VariantMap ==
    /\ parser.k = "VariantMap"
    /\ last.op = "finish"
    /\ out = SeqV(<<Ch("1")>>)

\* onEmpty through Map
C19_OnEmpty ==
    /\ parser = Map(AnyCharacter, "MkSome")
    /\ last.op = "empty"
    /\ out = SomeV(NoneV)

\* ---------------------------------------------------------------- C20
\* everything handed to the parser so far
FedSoFar == SubSeq(input, 1, pos)

\* C20: the result of Buffered(p) is a borrowed slice of the fragment exactly
\* when p completes inside the begin call.  Once p has suspended, the state
\* carries an owned buffer equal to the concatenation of everything fed so
\* far, every resume that suspends again appends its fragment to it, and the
\* final result is that buffer, owned: with the consumed part of the last
\* fragment appended when a resume completes, as it stands at finish.
C20_BorrowOrOwn ==
    parser.k = "Buffered" =>
        /\ (HasOutput /\ last.op \in {"begin", "resume", "finish"}) =>
              /\ out.t = "cow"
              /\ (~out.own) <=> (last.op = "begin")
        /\ (last.op = "begin" /\ last.res.r = "Done") =>
              last.res.out = Borrowed(Consumed(last.frag, last.res.rest))
        /\ phase = "suspended" =>
              (state.k = "BufferedState" /\ state.buf = FedSoFar)
        /\ (last.op = "resume" /\ last.res.r = "Continue") =>
              last.res.st.buf = last.pre.buf \o last.frag
        /\ (last.op = "resume" /\ last.res.r = "Done") =>
              last.res.out =
                  Owned(last.pre.buf \o Consumed(last.frag, last.res.rest))
        /\ last.op = "finish" => last.res.out = Owned(last.pre.buf)

\* suspended in begin, appended to by a resume, owned by the result of finish
C20_Witness ==
    /\ parser.k = "Buffered"
    /\ last.op = "finish"
    /\ last.prev.op = "resume"
    /\ last.prev.frag # <<>>
    /\ \E c \in cuts : 0 < c /\ c < Len(input)
    /\ out = Owned(input)

\* the match within one fragment: borrowed
C20_Borrowed ==
    /\ parser.k = "Buffered"
    /\ last.op = "begin"
    /\ phase = "done"
    /\ out = Borrowed(<<"a", "1">>)

\* completed by a resume that left a token: owned, without that token
C20_OwnedAtResume ==
    /\ parser.k = "Buffered"
    /\ last.op = "resume"
    /\ phase = "done"
    /\ last.res.rest # <<>>
    /\ out.own
    /\ out.str = SubSeq(input, 1, pos - Len(last.res.rest))

\* ---------------------------------------------------------------- C21
\* res is the inner result pr behind the erased handle: the same outcome,
\* Output and stream position, the inner state boxed on Continue
Erased(res, pr) ==
    /\ res.r = pr.r
    /\ res.r \in {"None", "Done", "Continue"} => res.rest = pr.rest
    /\ res.r = "Done" => res.out = pr.out
    /\ res.r = "Continue" => res.st = BoxableState(SomeState(pr.st))

\* C21: Boxed(p,f).begin erases p's state exactly when p.begin returns
\* Continue, and passes p's decline or Done on as it is; the erased handle,
\* resumed and finished, gives the outcomes, Outputs and stream positions that
\* p's own state gives on the same fragments; Boxed(p,f).onEmpty() is
\* p.onEmpty().
C21_Erasure ==
    parser.k = "Boxed" =>
        /\ last.op = "begin" =>
              LET pr == init(parser.p, last.frag, <<>>) IN
              /\ Erased(last.res, pr)
              /\ state.k = "Box" <=> pr.r = "Continue"
        /\ last.op = "resume" =>
              /\ last.pre.k = "Box"
              /\ Erased(last.res, more(last.pre.slot.v, last.frag, <<>>))
        /\ last.op = "finish" =>
              /\ last.pre.k = "Box"
              /\ last.res.out = done(last.pre.slot.v, <<>>).out
        /\ last.op = "empty" =>
              last.res.out = empty(parser.p, <<>>).out

\* an erased state advanced through two resumes and then finished
C21_Witness ==
    /\ parser = Boxed(AndThen(IsA, Star(IsDigit, ToSeq)))
    /\ {1, 2} \subseteq cuts
    /\ last.op = "finish"
    /\ last.prev.op = "resume"
    /\ last.pre.k = "Box"
    /\ out = Pair(Ch("a"), SeqV(<<Ch("1"), Ch("2")>>))

\* p completed in begin: no erased state
C21_NoErasure ==
    /\ parser = Boxed(AB)
    /\ last.op = "begin"
    /\ phase = "done"
    /\ state = NoSt

\* ---------------------------------------------------------------- C23
\* the fallible components of an adapter's argument, left to right
Fallible(f, a) ==
    CASE f \in {"TryMkSome", "TryFirst", "TrySecond", "TryDiscard"} -> <<a>>
      [] f = "TryZip"    -> <<a.a>>
      [] f = "ZipTry"    -> <<a.b>>
      [] f = "TryZipTry" -> <<a.a, a.b>>
      [] f = "TryOpt"    -> IF a.t = "some" THEN <<a.v>> ELSE <<>>

IsErr(r) == r.t = "err"

\* what the adapter makes of an argument all of whose components succeeded
OnSuccess(f, a) ==
    CASE f = "TryMkSome"  -> SomeV(a.v)
      [] f = "TryFirst"   -> a.v.a
      [] f = "TrySecond"  -> a.v.b
      [] f = "TryDiscard" -> UnitV
      [] f = "TryZip"     -> Pair(a.a.v, a.b)
      [] f = "ZipTry"     -> Pair(a.a, a.b.v)
      [] f = "TryZipTry"  -> Pair(a.a.v, a.b.v)
      [] f = "TryOpt"     -> IF a.t = "some" THEN SomeV(a.v.v) ELSE NoneV

\* C23: Try(f), TryDiscard, TryZip, ZipTry, TryZipTry and TryOpt return a
\* failure if and only if some fallible component of the argument is a
\* failure; the failure returned is that of the leftmost failing component,
\* as it was given (f is not applied to it); otherwise the result is success
\* of the transformed or paired success values, absent becoming
\* success(absent) under TryOpt.
C23_ShortCircuit ==
    (fn \in TryAdapters /\ ret # NoOut) =>
        LET failures == SelectSeq(Fallible(fn, arg), IsErr) IN
        /\ ret.t \in {"ok", "err"}
        /\ ret.t = "err" <=> failures # <<>>
        /\ failures # <<>> => ret = failures[1]
        /\ failures = <<>> => ret = Ok(OnSuccess(fn, arg))

\* two failures zipped: the left one is returned
C23_Witness ==
    /\ fn = "TryZipTry"
    /\ arg = Pair(Err("e1"), Err("e2"))
    /\ ret = Err("e1")

\* a failure passes Try(f) as it was given
C23_TryFailure ==
    /\ fn = "TryFirst"
    /\ arg = Err("e2")
    /\ ret = Err("e2")

\* absent under TryOpt
C23_TryOptAbsent ==
    /\ fn = "TryOpt"
    /\ arg = NoneV
    /\ ret = Ok(NoneV)

\* ---------------------------------------------------------------- C24
\* C24: for n from 2 to 6, FunctionN(f) applied to the nested pair
\* ((..((a1,a2),a3)..),an) is f(a1,a2,..,an): every ai at position i, none
\* dropped, duplicated or swapped.
C24_Flattening ==
    (fn \in FlattenAdapters /\ ret # NoOut) =>
        \A xs \in Tuples(Arity(fn)) :
            arg = Nest(xs) => ret = Call("g", xs)

\* six arguments, not all alike, each at its place
C24_Witness ==
    /\ fn = "Function6"
    /\ arg = Nest(<<Ch("1"), Ch("a"), Ch("a"), Ch("1"), Ch("1"), Ch("a")>>)
    /\ ret = Call("g", <<Ch("1"), Ch("a"), Ch("a"), Ch("1"), Ch("1"), Ch("a")>>)

\* ---------------------------------------------------------------- C22
\* the parser with the user's fallible transform replaced by one that never
\* fails: the run that differs only in the payloads
RECURSIVE Twin(_)
Twin(p) ==
    CASE p.k \in {"Map", "VariantMap"} ->
           [p EXCEPT !.p = Twin(p.p),
                     !.f = IF p.f = "Validate" THEN "AlwaysOk" ELSE p.f]
      [] p.k \in {"Opt", "Star", "Plus", "Discard", "Buffered", "Boxed"} ->
           [p EXCEPT !.p = Twin(p.p)]
      [] p.k \in {"AndThen", "OrElse"} ->
           [p EXCEPT !.p = Twin(p.p), !.q = Twin(p.q)]
      [] OTHER -> p

\* the boundaries of the non-empty fragments handed over so far, in order
FragmentEnds ==
    LET S == cuts \ {0} IN
    CHOOSE f \in [1..Cardinality(S) -> S] :
        \A i, j \in 1..Cardinality(S) : i < j => f[i] < f[j]

\* p driven over the first i of those fragments: begin, then resumes
RECURSIVE Replay(_, _)
Replay(p, i) ==
    IF i = 0 THEN [ph |-> "start", st |-> NoSt, out |-> NoOut, trace |-> <<>>]
    ELSE LET prev == Replay(p, i - 1)
             from == IF i = 1 THEN 0 ELSE FragmentEnds[i - 1]
             frag == SubSeq(input, from + 1, FragmentEnds[i])
             res  == IF prev.ph = "start" THEN init(p, frag, <<>>)
                                          ELSE more(prev.st, frag, <<>>) IN
         [ph    |-> CASE res.r = "Done"     -> "done"
                      [] res.r = "Continue" -> "suspended"
                      [] res.r = "None"     -> "declined"
                      [] OTHER              -> "aborted",
          st    |-> IF res.r = "Continue" THEN res.st ELSE NoSt,
          out   |-> IF res.r = "Done" THEN res.out ELSE NoOut,
          trace |-> Append(prev.trace,
                           [r |-> res.r,
                            left |-> IF res.r \in {"None", "Done", "Continue"}
                                     THEN Len(res.rest) ELSE 0])]

\* the Output of a replayed run, at Done or by finish
FinalOf(run) ==
    IF run.ph = "suspended" THEN done(run.st, <<>>).out ELSE run.out

C22_AtFinish ==
    /\ parser \in FallibleParsers
    /\ last.op = "finish"
    /\ out.t = "err"

\* ---------------------------------------------------------------- C25
\* the occurrences of p found back to back from the start of s, each one
\* consuming at least a token
RECURSIVE Items(_, _)
Items(p, s) ==
    LET r == init(p, s, <<>>) IN
    IF r.r = "Done" /\ r.rest # s THEN <<r.out>> \o Items(p, r.rest) ELSE <<>>

\* the accumulator a call of the engine came back with
AccOf(res) == IF res.r = "Done" THEN res.out ELSE res.st.acc

C25_Suspended ==
    /\ parser.k \in {"Star", "Plus"}
    /\ last.op = "begin"
    /\ Len(last.frag) >= 2
    /\ last.res.r = "Continue"
    /\ ~last.res.st.st.some
    /\ Len(last.res.st.acc.s) >= 2

\* ---------------------------------------------------------------- C26
\* C26: a BoxableState holds a live inner state after construction and after
\* every advance that returns Continue, and none after an advance that
\* returns Done or after finish; driven through Stateful for Box, an advance
\* or finish never meets an empty slot, so the unwrap in more_boxable and
\* done_boxable never fails.
C26_Linearity ==
    /\ last.op \in {"begin", "resume"} => last.res.r # "Panic"
    /\ last.op = "finish" => last.res.out # PanicV
    /\ parser.k = "Boxed" =>
          /\ phase = "suspended" => (state.k = "Box" /\ state.slot.some)
          /\ last.op = "resume" =>
                LET m == MoreBoxable(last.pre, last.frag, <<>>) IN
                /\ last.pre.slot.some
                /\ last.res.r = "Continue" =>
                      (m.slot.some /\ last.res.st.slot = m.slot)
                /\ last.res.r = "Done" => ~m.slot.some
          /\ last.op = "finish" =>
                /\ last.pre.slot.some
                /\ ~DoneBoxable(last.pre, <<>>).slot.some

\* a handle advanced twice: Continue with the slot refilled, then Done
C26_Witness ==
    /\ parser.k = "Boxed"
    /\ last.op = "resume"
    /\ last.res.r = "Done"
    /\ Cardinality(cuts \ {0}) = 3
    /\ ~MoreBoxable(last.pre, last.frag, <<>>).slot.some

\* a handle finished
C26_Finished ==
    /\ parser.k = "Boxed"
    /\ last.op = "finish"
    /\ last.prev.op = "resume"

\* ---------------------------------------------------------------- C27
\* the phases an AndThen state may be in after a resume, by the phase before
\* ("none": the resume returned Done and no state is left)
Forward(k) ==
    CASE k = "InLhs"     -> {"InLhs", "InBetween", "InRhs", "none"}
      [] k = "InBetween" -> {"InBetween", "InRhs", "none"}
      [] k = "InRhs"     -> {"InRhs", "none"}

\* C27: over any sequence of resumes an AndThen state goes from InLhs to
\* InLhs, InBetween, InRhs or Done, from InBetween to InBetween, InRhs or
\* Done, from InRhs to InRhs or Done, never back; p is neither begun nor
\* resumed after it completed; and a resume that leaves the state InLhs has
\* advanced p's state only, q untouched.
C27_PhasesForward ==
    /\ [][(parser.k = "AndThen" /\ phase = "suspended") =>
             state'.k \in Forward(state.k)]_vars
    /\ [](parser.k = "AndThen" /\ last.op = "resume" =>
            /\ last.pre.k \in {"InBetween", "InRhs"} =>
                  ~Invoked(last.res.log, "p")
            /\ last.pre.k = "InLhs" =>
                  /\ CallsOf(last.res.log, "p", "more") # {}
                  /\ CallsOf(last.res.log, "p", "init") = {}
            /\ (last.pre.k = "InLhs" /\ last.res.r = "Continue"
                  /\ last.res.st.k = "InLhs") =>
                  /\ ~Invoked(last.res.log, "q")
                  /\ last.res.st.snd = last.pre.snd
                  /\ last.res.st.fst = more(last.pre.fst, last.frag, <<>>).st)

\* InLhs, then InBetween, then Done, one token at a time
C27_Witness ==
    /\ parser = AndThen(AB, AnyCharacter)
    /\ cuts \ {0} = {1, 2, 3}
    /\ last.op = "resume"
    /\ last.pre.k = "InBetween"
    /\ phase = "done"

\* InBetween, then InRhs, then InRhs again
C27_ThroughRhs ==
    /\ parser = AndThen(IsA, Star(IsDigit, ToSeq))
    /\ cuts \ {0} = {1, 2, 3}
    /\ last.op = "resume"
    /\ last.pre.k = "InRhs"
    /\ state.k = "InRhs"

\* a resume that left the state InLhs
C27_StaysLhs ==
    /\ parser.k = "AndThen"
    /\ last.op = "resume"
    /\ last.frag # <<>>
    /\ last.pre.k = "InLhs"
    /\ state.k = "InLhs"

\* ---------------------------------------------------------------- C28
\* C28: whenever begin or resume returns Continue, the fragment it was given
\* has been consumed to its end: the stream is empty on return, and no
\* suspended state leaves tokens of its fragment behind.
C28_SuspendedMeansExhausted ==
    (last.op \in {"begin", "resume"} /\ last.res.r = "Continue") =>
        /\ last.res.rest = <<>>
        /\ phase = "suspended"
        /\ Consumed(last.frag, last.res.rest) = last.frag

\* a sequence inside a repetition suspended on a fragment of three tokens
C28_Witness ==
    /\ parser = Star(AB, ToSeq)
    /\ last.op = "begin"
    /\ Len(last.frag) = 3
    /\ last.res.r = "Continue"
    /\ last.res.st.st.some
    /\ last.res.rest = <<>>

\* a buffered, boxed or mapped parser suspended in a resume on tokens
C28_Wrapped ==
    /\ parser.k \in {"Buffered", "Boxed", "Map", "Opt", "OrElse"}
    /\ last.op = "resume"
    /\ last.frag # <<>>
    /\ last.res.r = "Continue"

\* ---------------------------------------------------------------- C29
\* C29: resume on an empty fragment is a no-op on every reachable suspended
\* state: it returns Continue with the state it was given (same phase, same
\* accumulator, same held value, same buffer) and never Done.
C29_EmptyResume ==
    /\ (last.op = "resume" /\ last.frag = <<>>) =>
          /\ last.res.r = "Continue"
          /\ last.res.st = last.pre
          /\ state = last.pre
          /\ phase = "suspended"
    /\ more(AnyCharacter, <<>>, <<>>).r = "Continue"
    /\ more(AnyCharacter, <<>>, <<>>).st = AnyCharacter

\* the kinds of suspended state resumed on an empty fragment
C29_Witness ==
    /\ last.op = "resume"
    /\ last.frag = <<>>
    /\ last.pre.k = "BufferedState"
    /\ last.pre.buf # <<>>
    /\ state = last.pre

C29_InBetween ==
    /\ last.op = "resume" /\ last.frag = <<>>
    /\ last.pre.k = "InBetween"

C29_InLhs ==
    /\ last.op = "resume" /\ last.frag = <<>>
    /\ last.pre.k = "InLhs"

C29_InRhs ==
    /\ last.op = "resume" /\ last.frag = <<>>
    /\ last.pre.k = "InRhs"

C29_Star ==
    /\ last.op = "resume" /\ last.frag = <<>>
    /\ last.pre.k = "StarState"
    /\ last.pre.acc.s # <<>>

C29_Others ==
    /\ last.op = "resume" /\ last.frag = <<>>
    /\ last.pre.k \in {"Opt", "Map", "Discard", "Lhs", "Rhs", "Box"}

\* ---------------------------------------------------------------- C30
\* C30: every begin or resume call on Star(p) or Plus(p) over a finite
\* fragment returns, declining or with Done or Continue, after finitely many
\* inner attempts, also when p can complete without consuming a token on a
\* non-empty stream (Emit, Opt, Star).
C30_LoopTerminates ==
    (parser.k \in {"Star", "Plus"} /\ last.op \in {"begin", "resume"}) =>
        last.res.r \in {"None", "Done", "Continue"}

\* Star over Emit on one token: the loop folds build() for ever
C30_EmitLoops ==
    /\ parser = Star(Emit(ToSeq), ToSeq)
    /\ last.op = "begin"
    /\ last.frag = <<"a">>
    /\ last.res.r = "Diverge"
    /\ phase = "diverged"

\* Star over Opt, suspended after a match, resumed on a token Opt's parser
\* declines: Opt answers absent without consuming, for ever
C30_OptLoops ==
    /\ parser = Star(Opt(IsA), ToSeq)
    /\ last.op = "resume"
    /\ last.frag = <<"b">>
    /\ last.res.r = "Diverge"

\* ---------------------------------------------------------------- C31
\* C31: finish on a suspended Star / Plus state returns the accumulator, which
\* holds exactly the items whose inner parse returned Done, in order; an inner
\* occurrence still suspended at finish is dropped: its own finish is not
\* called and it contributes nothing to the Output.
C31_FinishCompletedOnly ==
    (parser.k \in {"Star", "Plus"} /\ last.op = "finish") =>
        /\ last.pre.k = "StarState"
        /\ last.res.out = last.pre.acc
        /\ last.res.log = Ev("done", <<>>)
        /\ Content(out) = Content(SeqV(Items(parser.p, input)))

\* one occurrence completed, the next suspended between its two parsers:
\* finish returns the first alone
C31_Witness ==
    /\ parser = Star(AB, ToSeq)
    /\ input = <<"a", "1", "a">>
    /\ last.op = "finish"
    /\ last.pre.st = SomeState(InBetween(Ch("a"), AnyCharacter))
    /\ out = SeqV(<<Pair(Ch("a"), SomeV(Ch("1")))>>)

\* finish with no occurrence pending
C31_NonePending ==
    /\ parser.k \in {"Star", "Plus"}
    /\ last.op = "finish"
    /\ ~last.pre.st.some
    /\ Len(out.s) >= 2

====
